---- MODULE Spec2Model ----
(***************************************************************************)
(* Model of the Parsera client (src/src/services/parsera.ts): the rate     *)
(* limiter, the deadline wrapper, the retry loop and the extract           *)
(* orchestrator, for two extract calls on one client instance.             *)
(*                                                                         *)
(* Messages of Error objects are sequences of one-character strings, so    *)
(* that String.prototype.includes and string concatenation are computed    *)
(* and not assumed.                                                        *)
(***************************************************************************)
EXTENDS Integers, Sequences, FiniteSets, TLC

(***************************************************************************)
(* Bounds of the model                                                     *)
(***************************************************************************)
\* largest maxRetries a client is constructed with
MaxRetriesBound == 2

\* Date.now() when the first call may start (lastRequestTime starts at 0,
\* the epoch, so the first attempt of a fresh client never waits)
StartTime == 1000

\* the clock stops advancing here
MaxTime == 1300

\* amounts by which the clock advances between two steps
Ticks == {50}

\* the two concurrent extract calls
Procs == {1, 2}

\* largest maxRetries in the runs of two concurrent calls
MaxRetriesConc == 1

\* largest maxRetries, and the time the clock stops at, in the runs that
\* follow one call through all of its backoff waits
MaxRetriesBackoff == 3
MaxTimeBackoff == 1400

(***************************************************************************)
(* Program constants                                                       *)
(***************************************************************************)
minRequestInterval == 100

\* constructor options the model constructs clients with
InitialDelays == {50}
BackoffFactors == {2}
Timeouts == {100}

(***************************************************************************)
(* String literals of the source                                           *)
(***************************************************************************)
MsgInvalidUrl ==
  <<"I","n","v","a","l","i","d"," ","U","R","L"," ","f","o","r","m","a",
    "t">>

MsgTimedOut ==
  <<"R","e","q","u","e","s","t"," ","t","i","m","e","d"," ","o","u","t">>

MsgWrapPrefix ==
  <<"F","a","i","l","e","d"," ","t","o"," ","e","x","t","r","a","c","t"," ",
    "d","a","t","a",":"," ">>

MsgNoData ==
  <<"N","o"," ","d","a","t","a"," ","r","e","t","u","r","n","e","d"," ","f",
    "r","o","m"," ","P","a","r","s","e","r","a"," ","A","P","I","."," ","M",
    "a","k","e"," ","s","u","r","e"," ","t","h","e"," ","w","e","b","s","i",
    "t","e"," ","c","o","n","t","a","i","n","s"," ","t","h","e"," ","d","a",
    "t","a"," ","a","n","d"," ","t","h","e"," ","a","t","t","r","i","b","u",
    "t","e"," ","d","e","s","c","r","i","p","t","i","o","n","s"," ","a","r",
    "e"," ","c","l","e","a","r",".">>

MsgUnauthorized ==
  <<"I","n","v","a","l","i","d"," ","P","a","r","s","e","r","a"," ","A","P",
    "I"," ","k","e","y","."," ","P","l","e","a","s","e"," ","c","h","e","c",
    "k"," ","y","o","u","r"," ","c","r","e","d","e","n","t","i","a","l","s",
    ".">>

MsgRateLimit ==
  <<"R","a","t","e"," ","l","i","m","i","t"," ","e","x","c","e","e","d","e",
    "d","."," ","P","l","e","a","s","e"," ","t","r","y"," ","a","g","a","i",
    "n"," ","l","a","t","e","r",".">>

MsgBadRequestPrefix ==
  <<"B","a","d"," ","r","e","q","u","e","s","t",":"," ">>

MsgApiErrorPrefix ==
  <<"P","a","r","s","e","r","a"," ","A","P","I"," ","e","r","r","o","r",":",
    " ">>

MsgUnknownError ==
  <<"U","n","k","n","o","w","n"," ","e","r","r","o","r">>

MarkNetwork ==
  <<"n","e","t","w","o","r","k">>

MarkTimeout ==
  <<"t","i","m","e","o","u","t">>

MarkConnReset ==
  <<"E","C","O","N","N","R","E","S","E","T">>

(***************************************************************************)
(* Messages the transport and the server answer with (inputs)              *)
(***************************************************************************)
MsgNetworkDown ==
  <<"n","e","t","w","o","r","k"," ","d","o","w","n">>

\* the message of the TypeError response.json() rejects with when the
\* connection is cut while the body is read
MsgTerminated ==
  <<"t","e","r","m","i","n","a","t","e","d">>

\* the message of the SyntaxError response.json() rejects with for the body
\* <html>Bad Gateway</html>
MsgNotJson ==
  <<"U","n","e","x","p","e","c","t","e","d"," ","t","o","k","e","n",
    " ","'","<","'",","," ","\"","<","h","t","m","l",">","B","a","d",
    " ","\"",".",".","."," ","i","s"," ","n","o","t"," ","v","a","l",
    "i","d"," ","J","S","O","N">>

MsgFetchFailed ==
  <<"f","e","t","c","h"," ","f","a","i","l","e","d">>

MsgAborted ==
  <<"T","h","i","s"," ","o","p","e","r","a","t","i","o","n"," ","w","a","s",
    " ","a","b","o","r","t","e","d">>

MsgServer ==
  <<"q","u","o","t","a">>

MsgStatusText ==
  <<"S","e","r","v","e","r"," ","E","r","r","o","r">>

(***************************************************************************)
(* Values                                                                  *)
(***************************************************************************)
\* the value of an omitted field (JavaScript undefined)
Undefined == [undefined |-> TRUE]

\* an Error object: its name and its message
MkError(name, message) == [name |-> name, message |-> message]

\* no failure raised
NoError == MkError("", <<>>)

\* no timer scheduled
NoTimer == -1

\* JavaScript truthiness of a string: the empty string is falsy
Truthy(s) == s # <<>>

\* String.prototype.includes
Includes(s, sub) ==
  \E i \in 0..(Len(s) - Len(sub)) : SubSeq(s, i + 1, i + Len(sub)) = sub

RECURSIVE Pow(_, _)
\* Math.pow for a natural exponent
Pow(b, n) == IF n = 0 THEN 1 ELSE b * Pow(b, n - 1)

(***************************************************************************)
(* Inputs: URLs, transport answers                                         *)
(***************************************************************************)
Urls == {"https://example.com", "invalid-url"}

\* new URL(url) does not throw
URLParses(url) == url = "https://example.com"

\* a response of the transport: status, ok (status in 200..299), statusText
\* and the JSON body (ParseraResponse / ParseraError)
MkResponse(status, hasData, data, message) ==
  [kind |-> "response", status |-> status,
   ok |-> (status >= 200 /\ status <= 299),
   statusText |-> IF status >= 500 THEN MsgStatusText ELSE <<>>,
   body |-> [hasData |-> hasData, data |-> data, message |-> message]]

\* a rejection of the transport promise with an Error
MkReject(e) == [kind |-> "reject", error |-> e]

SuccessBodies ==
  { MkResponse(200, TRUE, <<"row1">>, <<>>),
    MkResponse(200, TRUE, <<"row1", "row2">>, MsgServer),
    MkResponse(200, TRUE, <<>>, <<>>),
    MkResponse(200, TRUE, <<>>, MsgServer),
    MkResponse(200, TRUE, <<>>, MsgTimedOut),
    MkResponse(200, FALSE, <<>>, <<>>) }

ErrorResponses ==
  { MkResponse(s, FALSE, <<>>, m) : s \in {429, 401, 400, 500},
                                     m \in {<<>>, MsgServer} }

\* failures of the transport itself (never an AbortError: fetch raises that
\* one only when its signal is aborted)
TransportErrors ==
  { MkError("TypeError", MsgNetworkDown), MkError("TypeError", MsgFetchFailed) }

Answers ==
  SuccessBodies \cup ErrorResponses \cup { MkReject(e) : e \in TransportErrors }

\* what fetch rejects with when its signal is aborted
AbortError == MkError("AbortError", MsgAborted)

\* how an attempt ended when the transport did not answer it: the timeout
\* timer fired, or the caller's signal aborted it
TimedOut == [kind |-> "timeout"]
Cancelled == [kind |-> "cancel"]

\* the transport answered the attempt with the status line and the headers
\* of a response, and the caller's signal aborted the read of its body
CancelledBody(response) == [kind |-> "cancelBody", status |-> response.status]

\* what response.json() rejects with when nobody aborted: the connection was
\* cut while the body was read, or the body that arrived is not JSON
BodyErrors ==
  { MkError("TypeError", MsgTerminated), MkError("SyntaxError", MsgNotJson) }

\* the transport answered the attempt with the status line and the headers
\* of a response, and response.json() rejected with e
FailedBody(response, e) ==
  [kind |-> "bodyError", status |-> response.status, ok |-> response.ok,
   statusText |-> response.statusText, error |-> e]

(***************************************************************************)
(* State                                                                   *)
(***************************************************************************)
VARIABLES
  now,              \* Date.now()
  lastRequestTime,  \* Parsera.lastRequestTime
  retryOptions,     \* Parsera.retryOptions
  timeout,          \* Parsera.timeout
  pc,               \* where each extract call is suspended
  request,          \* the ExtractOptions of each call
  aborted,          \* whether the caller's AbortController has aborted
  retryCount,       \* retryCount of the running retryableRequest
  wakeAt,           \* when the setTimeout a call sleeps on is due
  timeoutId,        \* when the pending timeout timer of the attempt is due
  emitted,          \* the events each call has passed to emit, in order
  answers,          \* what the transport answered to each attempt of a call
  released,         \* the attempts handed to the transport, in order, and
                    \* whether the caller's signal had aborted by then
  result,           \* what extract returned
  error,            \* what extract threw
  eventHandlers,    \* Parsera.eventHandlers: the handlers of each event type
                    \* that has an entry, in insertion order
  eventOptions,     \* Parsera.eventOptions: the delivery options of each
                    \* event type that has an entry
  subscribed,       \* the (type, handler) pairs subscribed with on and not
                    \* unsubscribed since, and those unsubscribed and not
                    \* subscribed again since
  busCalls,         \* how often on, and off or removeAllListeners, were called,
                    \* and how many of these calls were made during a call of extract
  emissions,        \* every run of emit, in order
  tasks,            \* every run of handleEvent, in order
  cont              \* the emit each call is suspended in

\* the state of the event bus
busVars ==
  <<eventHandlers, eventOptions, subscribed, busCalls, emissions, tasks, cont>>

vars ==
  <<now, lastRequestTime, retryOptions, timeout, pc, request, aborted,
    retryCount, wakeAt, timeoutId, emitted, answers, released, result, error,
    busVars>>

NoRequest == [url |-> "", hasSignal |-> FALSE]
NoResult == [returned |-> FALSE, data |-> <<>>]

\* a Map without entries
EmptyMap == [t \in {} |-> <<>>]

\* no response held
NoResponse == MkResponse(0, FALSE, <<>>, <<>>)

\* no emit to resume from
NoCont ==
  [at |-> "", emission |-> 0, response |-> NoResponse, error |-> NoError]

\* the state after new Parsera(options), for the retryOptions in ros
Constructed(ros) ==
  /\ now = StartTime
  /\ lastRequestTime = 0
  /\ retryOptions \in ros
  /\ timeout \in Timeouts
  /\ pc = [p \in Procs |-> "idle"]
  /\ request = [p \in Procs |-> NoRequest]
  /\ aborted = [p \in Procs |-> FALSE]
  /\ retryCount = [p \in Procs |-> 0]
  /\ wakeAt = [p \in Procs |-> NoTimer]
  /\ timeoutId = [p \in Procs |-> NoTimer]
  /\ emitted = [p \in Procs |-> <<>>]
  /\ answers = [p \in Procs |-> <<>>]
  /\ released = <<>>
  /\ result = [p \in Procs |-> NoResult]
  /\ error = [p \in Procs |-> NoError]
  /\ eventHandlers = EmptyMap
  /\ eventOptions = EmptyMap
  /\ subscribed = [on |-> {}, off |-> {}]
  /\ busCalls = [on |-> 0, off |-> 0, onDuring |-> 0, offDuring |-> 0]
  /\ emissions = <<>>
  /\ tasks = <<>>
  /\ cont = [p \in Procs |-> NoCont]

Init ==
  Constructed([maxRetries : 0..MaxRetriesBound,
               backoffFactor : BackoffFactors,
               initialDelay : InitialDelays])

(***************************************************************************)
(* The event bus, as far as the emitting side goes: emitted[p] records     *)
(* every call of emit made on behalf of call p, with the envelope emit     *)
(* builds for the handlers of that type.                                   *)
(***************************************************************************)
\* emit(eventType, data, error, retryCount), appended to the log evs
Emit(evs, eventType, data, err, rc) ==
  Append(evs, [type |-> eventType, timestamp |-> now, data |-> data,
               error |-> err, retryCount |-> rc])

\* the number of events of a type in a log
RECURSIVE Count(_, _)
Count(evs, eventType) ==
  IF evs = <<>> THEN 0
  ELSE (IF Head(evs).type = eventType THEN 1 ELSE 0)
       + Count(Tail(evs), eventType)

(***************************************************************************)
(* Pure parts of the request pipeline                                      *)
(***************************************************************************)
\* validateUrl accepting every URL
validateUrl_AcceptAll(url) == NoError

\* validateUrl: the Error it throws, or NoError
validateUrl(url) ==
  IF URLParses(url) THEN NoError ELSE MkError("Error", MsgInvalidUrl)

\* isRetryableError also matching the message of the TimeoutError
isRetryableError_TimedOut(e) ==
  \/ Includes(e.message, MarkNetwork)
  \/ Includes(e.message, MarkTimeout)
  \/ Includes(e.message, MsgTimedOut)
  \/ Includes(e.message, MarkConnReset)

\* isRetryableError, for an error that is an instance of Error
isRetryableError(e) ==
  \/ Includes(e.message, MarkNetwork)
  \/ Includes(e.message, MarkTimeout)
  \/ Includes(e.message, MarkConnReset)

\* delay growing by the same amount with every retry, not by the same
\* factor: equal to delay for the first two retries
delay_Linear(rc) ==
  retryOptions.initialDelay * (1 + rc * (retryOptions.backoffFactor - 1))

\* the backoff before the retry that follows the attempt with this retryCount
delay(rc) == retryOptions.initialDelay * Pow(retryOptions.backoffFactor, rc)

\* handleError: the Error thrown for a response that is not ok
handleError(response) ==
  LET m == response.body.message IN
  CASE response.status = 401 -> MkError("Error", MsgUnauthorized)
    [] response.status = 429 -> MkError("Error", MsgRateLimit)
    [] response.status = 400 ->
         MkError("Error", MsgBadRequestPrefix \o
                          (IF Truthy(m) THEN m ELSE MsgUnknownError))
    [] OTHER ->
         MkError("Error", MsgApiErrorPrefix \o
                          (IF Truthy(m) THEN m ELSE response.statusText))

\* fetchCatch rethrowing every Error as it is
fetchCatch_Rethrow(e) == e

\* the catch block of fetchWithTimeout: the Error it rethrows for e
fetchCatch(e) ==
  IF e.name = "AbortError" THEN MkError("TimeoutError", MsgTimedOut) ELSE e

\* the outcome of one synchronous run of a call up to its next suspension:
\* where it is suspended next, the events emitted on the way, the delay of
\* the timer it sleeps on, and what extract returned or threw
Outcome(next, evs, d, res, e) ==
  [next |-> next, emitted |-> evs, delay |-> d, result |-> res, error |-> e]

\* the catch block of extract
extractCatch(evs, e) ==
  Outcome("failed",
          Emit(evs, "extract:error", Undefined, e, Undefined),
          0, NoResult,
          IF e.message = MsgTimedOut THEN e
          ELSE MkError("Error", MsgWrapPrefix \o e.message))

\* extractResponse testing only the presence of the data collection, not
\* its length
extractResponse_NoLength(evs, response) ==
  IF ~response.ok THEN extractCatch(evs, handleError(response))
  ELSE IF ~response.body.hasData
  THEN extractCatch(evs,
         MkError("Error", IF Truthy(response.body.message)
                          THEN response.body.message ELSE MsgNoData))
  ELSE Outcome("done",
               Emit(evs, "extract:complete", response.body, NoError, Undefined),
               0, [returned |-> TRUE, data |-> response.body.data], NoError)

\* extract, from the response retryableRequest returned to it, once
\* response.json() has given its body (in handleError if it is not ok)
extractResponse(evs, response) ==
  IF ~response.ok THEN extractCatch(evs, handleError(response))
  ELSE IF ~response.body.hasData \/ Len(response.body.data) = 0
  THEN extractCatch(evs,
         MkError("Error", IF Truthy(response.body.message)
                          THEN response.body.message ELSE MsgNoData))
  ELSE Outcome("done",
               Emit(evs, "extract:complete", response.body, NoError, Undefined),
               0, [returned |-> TRUE, data |-> response.body.data], NoError)

\* retryResponse giving up one retry early
retryResponse_OneLess(evs, rc, response) ==
  IF response.status = 429 /\ rc + 1 < retryOptions.maxRetries
  THEN Outcome("backoff",
               Emit(Emit(evs, "rateLimit", [retryCount |-> rc], NoError,
                         Undefined),
                    "request:retry", [retryCount |-> rc], NoError, Undefined),
               delay(rc), NoResult, NoError)
  ELSE Outcome("readingBody", evs, 0, NoResult, NoError)

\* retryResponse retrying a server error as it retries a 429
retryResponse_Retry5xx(evs, rc, response) ==
  IF (response.status = 429 \/ response.status >= 500)
     /\ rc < retryOptions.maxRetries
  THEN Outcome("backoff",
               Emit(Emit(evs, "rateLimit", [retryCount |-> rc], NoError,
                         Undefined),
                    "request:retry", [retryCount |-> rc], NoError, Undefined),
               delay(rc), NoResult, NoError)
  ELSE Outcome("readingBody", evs, 0, NoResult, NoError)

\* retryableRequest, from the response of the attempt with retryCount rc:
\* it retries, or returns the response to extract, which reads its body
retryResponse(evs, rc, response) ==
  IF response.status = 429 /\ rc < retryOptions.maxRetries
  THEN Outcome("backoff",
               Emit(Emit(evs, "rateLimit", [retryCount |-> rc], NoError,
                         Undefined),
                    "request:retry", [retryCount |-> rc], NoError, Undefined),
               delay(rc), NoResult, NoError)
  ELSE Outcome("readingBody", evs, 0, NoResult, NoError)

\* retryCatch retrying a retryable Error whatever the retryCount
retryCatch_NoLimit(evs, rc, e) ==
  LET evs1 == IF e.name = "AbortError"
              THEN Emit(evs, "timeout", Undefined, e, Undefined) ELSE evs
      evs2 == Emit(evs1, "request:error", Undefined, e, Undefined)
  IN IF isRetryableError(e)
     THEN Outcome("backoff",
                  Emit(evs2, "request:retry", [retryCount |-> rc], NoError,
                       Undefined),
                  delay(rc), NoResult, NoError)
     ELSE extractCatch(evs2, e)

\* the catch block of retryableRequest, for the Error e thrown by the
\* attempt with retryCount rc
retryCatch(evs, rc, e) ==
  LET evs1 == IF e.name = "AbortError"
              THEN Emit(evs, "timeout", Undefined, e, Undefined) ELSE evs
      evs2 == Emit(evs1, "request:error", Undefined, e, Undefined)
  IN IF rc < retryOptions.maxRetries /\ isRetryableError(e)
     THEN Outcome("backoff",
                  Emit(evs2, "request:retry", [retryCount |-> rc], NoError,
                       Undefined),
                  delay(rc), NoResult, NoError)
     ELSE extractCatch(evs2, e)

(***************************************************************************)
(* Steps of an extract call.  A step is what the call does between two     *)
(* suspensions on a timer or on the transport.                             *)
(***************************************************************************)
\* the attempt with retryCount rc is handed to the transport:
\* enforceRateLimit records the time, fetchWithTimeout schedules its timer
Release(p, rc) ==
  /\ lastRequestTime' = now
  /\ released' = Append(released, [call |-> p, time |-> now, retryCount |-> rc,
                                   cancelled |-> aborted[p]])
  /\ timeoutId' = [timeoutId EXCEPT ![p] = now + timeout]
  /\ pc' = [pc EXCEPT ![p] = "fetching"]

\* retryableRequest without the wait of enforceRateLimit
retryableRequest_NoWait(p, rc) ==
  /\ retryCount' = [retryCount EXCEPT ![p] = rc]
  /\ Release(p, rc)
  /\ wakeAt' = [wakeAt EXCEPT ![p] = NoTimer]

\* retryableRequest keeping the retry count in a field of the instance,
\* shared by the calls
retryableRequest_Shared(p, rc) ==
  LET timeSinceLastRequest == now - lastRequestTime IN
  /\ retryCount' = [q \in Procs |-> rc]
  /\ IF timeSinceLastRequest < minRequestInterval
     THEN /\ pc' = [pc EXCEPT ![p] = "rateLimit"]
          /\ wakeAt' = [wakeAt EXCEPT
                          ![p] = now + (minRequestInterval - timeSinceLastRequest)]
          /\ UNCHANGED <<lastRequestTime, released, timeoutId>>
     ELSE /\ Release(p, rc)
          /\ wakeAt' = [wakeAt EXCEPT ![p] = NoTimer]

\* retryableRequest(requestFn, rc) up to its first suspension
retryableRequest(p, rc) ==
  LET timeSinceLastRequest == now - lastRequestTime IN
  /\ retryCount' = [retryCount EXCEPT ![p] = rc]
  /\ IF timeSinceLastRequest < minRequestInterval
     THEN /\ pc' = [pc EXCEPT ![p] = "rateLimit"]
          /\ wakeAt' = [wakeAt EXCEPT
                          ![p] = now + (minRequestInterval - timeSinceLastRequest)]
          /\ UNCHANGED <<lastRequestTime, released, timeoutId>>
     ELSE /\ Release(p, rc)
          /\ wakeAt' = [wakeAt EXCEPT ![p] = NoTimer]

\* the call continues as the outcome o says
Continue(p, o) ==
  /\ pc' = [pc EXCEPT ![p] = o.next]
  /\ emitted' = [emitted EXCEPT ![p] = o.emitted]
  /\ wakeAt' = [wakeAt EXCEPT
                  ![p] = IF o.next = "backoff" THEN now + o.delay ELSE NoTimer]
  /\ result' = [result EXCEPT ![p] = o.result]
  /\ error' = [error EXCEPT ![p] = o.error]

\* Extract with the URL validated before the emission: extract:start is not
\* emitted for a malformed URL
Extract_ValidateFirst(p, urls, signals) ==
  /\ pc[p] = "idle"
  /\ \E url \in urls, hasSignal \in signals, fired \in BOOLEAN :
       /\ fired => hasSignal
       /\ request' = [request EXCEPT
                        ![p] = [url |-> url, hasSignal |-> hasSignal]]
       /\ aborted' = [aborted EXCEPT ![p] = fired]
       /\ emitted' = [emitted EXCEPT
                        ![p] = IF URLParses(url)
                               THEN Emit(emitted[p], "extract:start",
                                         [url |-> url, hasSignal |-> hasSignal],
                                         NoError, Undefined)
                               ELSE emitted[p]]
  /\ pc' = [pc EXCEPT ![p] = "validate"]
  /\ UNCHANGED busVars
  /\ UNCHANGED <<now, lastRequestTime, retryOptions, timeout, retryCount,
                 wakeAt, timeoutId, answers, released, result, error>>

\* extract is called: extract:start is emitted
Extract(p, urls, signals) ==
  /\ pc[p] = "idle"
  /\ \E url \in urls, hasSignal \in signals, fired \in BOOLEAN :
       /\ fired => hasSignal
       /\ request' = [request EXCEPT
                        ![p] = [url |-> url, hasSignal |-> hasSignal]]
       /\ aborted' = [aborted EXCEPT ![p] = fired]
       /\ emitted' = [emitted EXCEPT
                        ![p] = Emit(emitted[p], "extract:start",
                                    [url |-> url, hasSignal |-> hasSignal],
                                    NoError, Undefined)]
  /\ pc' = [pc EXCEPT ![p] = "validate"]
  /\ UNCHANGED busVars
  /\ UNCHANGED <<now, lastRequestTime, retryOptions, timeout, retryCount,
                 wakeAt, timeoutId, answers, released, result, error>>

\* extract resumes after the emission: validateUrl, then retryableRequest
Validate(p) ==
  /\ pc[p] = "validate"
  /\ IF validateUrl(request[p].url) # NoError
     THEN /\ pc' = [pc EXCEPT ![p] = "failed"]
          /\ error' = [error EXCEPT ![p] = validateUrl(request[p].url)]
          /\ UNCHANGED <<lastRequestTime, retryCount, wakeAt, timeoutId,
                         released>>
     ELSE /\ retryableRequest(p, 0)
          /\ UNCHANGED error
  /\ UNCHANGED busVars
  /\ UNCHANGED <<now, retryOptions, timeout, request, aborted, emitted,
                 answers, result>>

\* the timer of enforceRateLimit fires
RateLimitWake(p) ==
  /\ pc[p] = "rateLimit"
  /\ now >= wakeAt[p]
  /\ Release(p, retryCount[p])
  /\ wakeAt' = [wakeAt EXCEPT ![p] = NoTimer]
  /\ UNCHANGED busVars
  /\ UNCHANGED <<now, retryOptions, timeout, request, aborted, retryCount,
                 emitted, answers, result, error>>

\* Respond without the clearTimeout of fetchWithTimeout
Respond_KeepTimer(p, as) ==
  /\ pc[p] = "fetching"
  /\ \E a \in as :
       /\ answers' = [answers EXCEPT ![p] = Append(answers[p], a)]
       /\ Continue(p, IF a.kind = "response"
                      THEN retryResponse(emitted[p], retryCount[p], a)
                      ELSE retryCatch(emitted[p], retryCount[p],
                                      fetchCatch(a.error)))
  /\ UNCHANGED busVars
  /\ UNCHANGED <<now, lastRequestTime, retryOptions, timeout, request,
                 aborted, retryCount, released, timeoutId>>

\* fetch settles for the attempt in flight: it resolves with the status line
\* and the headers of a response, whose body a has arrives later if it is
\* read, or it rejects; fetchWithTimeout clears the timer
Respond(p, as) ==
  /\ pc[p] = "fetching"
  /\ \E a \in as :
       /\ answers' = [answers EXCEPT ![p] = Append(answers[p], a)]
       /\ Continue(p, IF a.kind = "response"
                      THEN retryResponse(emitted[p], retryCount[p], a)
                      ELSE retryCatch(emitted[p], retryCount[p],
                                      fetchCatch(a.error)))
  /\ timeoutId' = [timeoutId EXCEPT ![p] = NoTimer]
  /\ UNCHANGED busVars
  /\ UNCHANGED <<now, lastRequestTime, retryOptions, timeout, request,
                 aborted, retryCount, released>>

\* the timeout timer of the attempt in flight fires: the controller aborts,
\* fetch rejects with an AbortError
TimeoutFire(p) ==
  /\ pc[p] = "fetching"
  /\ timeoutId[p] # NoTimer
  /\ now >= timeoutId[p]
  /\ answers' = [answers EXCEPT ![p] = Append(answers[p], TimedOut)]
  /\ Continue(p, retryCatch(emitted[p], retryCount[p], fetchCatch(AbortError)))
  /\ timeoutId' = [timeoutId EXCEPT ![p] = NoTimer]
  /\ UNCHANGED busVars
  /\ UNCHANGED <<now, lastRequestTime, retryOptions, timeout, request,
                 aborted, retryCount, released>>

\* response.json() settles for the response extract holds: it gives the
\* body, or it rejects with one of errs and the catch of extract goes on
\* (handleError has no catch of its own)
ReadBody(p, errs) ==
  /\ pc[p] = "readingBody"
  /\ \/ /\ Continue(p, extractResponse(emitted[p],
                                        answers[p][Len(answers[p])]))
        /\ UNCHANGED answers
     \/ \E e \in errs :
          /\ answers' = [answers EXCEPT
                           ![p][Len(answers[p])] = FailedBody(@, e)]
          /\ Continue(p, extractCatch(emitted[p], e))
  /\ UNCHANGED busVars
  /\ UNCHANGED <<now, lastRequestTime, retryOptions, timeout, request,
                 aborted, retryCount, timeoutId, released>>

\* the caller aborts the AbortController whose signal it passed to extract;
\* the listener of an attempt in flight clears the timer and aborts the
\* controller, so that fetch rejects with an AbortError.  The listener of
\* an attempt whose response is being read aborts the controller as well:
\* response.json() rejects with the AbortError, unless the transport goes
\* on to deliver the body
Abort(p) ==
  /\ request[p].hasSignal
  /\ ~aborted[p]
  /\ pc[p] \notin {"done", "failed"}
  /\ aborted' = [aborted EXCEPT ![p] = TRUE]
  /\ \/ /\ pc[p] = "fetching"
        /\ answers' = [answers EXCEPT ![p] = Append(answers[p], Cancelled)]
        /\ Continue(p, retryCatch(emitted[p], retryCount[p],
                                  fetchCatch(AbortError)))
        /\ timeoutId' = [timeoutId EXCEPT ![p] = NoTimer]
     \/ /\ pc[p] = "readingBody"
        /\ answers' = [answers EXCEPT
                         ![p][Len(answers[p])] = CancelledBody(@)]
        /\ Continue(p, extractCatch(emitted[p], AbortError))
        /\ UNCHANGED timeoutId
     \/ /\ pc[p] # "fetching"
        /\ UNCHANGED <<pc, emitted, wakeAt, result, error, answers, timeoutId>>
  /\ UNCHANGED busVars
  /\ UNCHANGED <<now, lastRequestTime, retryOptions, timeout, request,
                 retryCount, released>>

\* the backoff timer fires: retryableRequest(requestFn, retryCount + 1)
BackoffWake(p) ==
  /\ pc[p] = "backoff"
  /\ now >= wakeAt[p]
  /\ retryableRequest(p, retryCount[p] + 1)
  /\ UNCHANGED busVars
  /\ UNCHANGED <<now, retryOptions, timeout, request, aborted, emitted,
                 answers, result, error>>

\* time passes, as long as the clock has not reached max
TickTo(max) ==
  /\ \E d \in Ticks : /\ now + d <= max
                      /\ now' = now + d
  /\ UNCHANGED busVars
  /\ UNCHANGED <<lastRequestTime, retryOptions, timeout, pc, request, aborted,
                 retryCount, wakeAt, timeoutId, emitted, answers, released,
                 result, error>>

Tick == TickTo(MaxTime)

\* one extract call, every input
Next ==
  \/ Extract(1, Urls, BOOLEAN)
  \/ Validate(1)
  \/ RateLimitWake(1)
  \/ Respond(1, Answers)
  \/ ReadBody(1, BodyErrors)
  \/ TimeoutFire(1)
  \/ Abort(1)
  \/ BackoffWake(1)
  \/ Tick

Spec == Init /\ [][Next]_vars

\* what the transport answers in the runs of two concurrent calls
ConcAnswers ==
  { MkResponse(200, TRUE, <<"row1">>, <<>>),
    MkResponse(429, FALSE, <<>>, <<>>),
    MkReject(MkError("TypeError", MsgNetworkDown)) }

\* what response.json() rejects with in the runs of two calls
ConcBodyErrors == { MkError("TypeError", MsgTerminated) }

\* two extract calls on the same client instance, without cancellation
NextConc ==
  \/ \E p \in Procs : Extract(p, {"https://example.com"}, {FALSE})
  \/ \E p \in Procs : Validate(p)
  \/ \E p \in Procs : RateLimitWake(p)
  \/ \E p \in Procs : Respond(p, ConcAnswers)
  \/ \E p \in Procs : ReadBody(p, ConcBodyErrors)
  \/ \E p \in Procs : TimeoutFire(p)
  \/ \E p \in Procs : BackoffWake(p)
  \/ Tick

InitConc == Init /\ retryOptions.maxRetries <= MaxRetriesConc

SpecConc == InitConc /\ [][NextConc]_vars

\* two extract calls on the same client instance that do not overlap in
\* time: call 2 is made after call 1 has returned or thrown
NextSeq ==
  \/ Extract(1, {"https://example.com"}, {FALSE})
  \/ /\ pc[1] \in {"done", "failed"}
     /\ Extract(2, {"https://example.com"}, {FALSE})
  \/ \E p \in Procs : Validate(p)
  \/ \E p \in Procs : RateLimitWake(p)
  \/ \E p \in Procs : Respond(p, ConcAnswers)
  \/ \E p \in Procs : ReadBody(p, ConcBodyErrors)
  \/ \E p \in Procs : TimeoutFire(p)
  \/ \E p \in Procs : BackoffWake(p)
  \/ Tick

SpecSeq == Init /\ [][NextSeq]_vars

\* the retryOptions of the clients whose call is followed through all of
\* its backoff waits
BackoffOptions ==
  [maxRetries : 0..MaxRetriesBackoff,
   backoffFactor : {2, 3},
   initialDelay : InitialDelays]

\* one extract call that may retry MaxRetriesBackoff times, without
\* cancellation
NextBackoff ==
  \/ Extract(1, {"https://example.com"}, {FALSE})
  \/ Validate(1)
  \/ RateLimitWake(1)
  \/ Respond(1, ConcAnswers)
  \/ ReadBody(1, ConcBodyErrors)
  \/ TimeoutFire(1)
  \/ BackoffWake(1)
  \/ TickTo(MaxTimeBackoff)

InitBackoff == Constructed(BackoffOptions)

SpecBackoff == InitBackoff /\ [][NextBackoff]_vars

(***************************************************************************)
(* The event bus, delivering side.  The handlers are the caller's code:    *)
(* one of each kind, a function that returns, a function that throws, an   *)
(* async function whose promise is fulfilled later, and one whose promise  *)
(* is rejected later.                                                      *)
(***************************************************************************)
\* how deep the emissions of handler:error nest before the call stack of a
\* synchronous chain is exhausted
MaxNest == 2

\* in the runs with handlers, how long after the attempt was handed to the
\* transport the body of its response is still awaited
MaxBodyDelay == 50

\* how often on, and off or removeAllListeners, are called
MaxOn == 2
MaxOff == 1

\* at most this many retries in the runs with handlers
MaxRetriesBus == 1

HandlerIds == {"hReturn", "hResolve", "hThrow", "hReject"}

\* the handler settles before it returns to handleEvent
IsSync(h) == h \in {"hReturn", "hThrow"}

\* the handler throws, or the promise it returned is rejected
Fails(h) == h \in {"hThrow", "hReject"}

MsgHandlerThrew == <<"h","a","n","d","l","e","r"," ","f","a","i","l","e","d">>
MsgHandlerRejected == <<"s","i","n","k"," ","t","i","m","e","o","u","t">>
MsgStackOverflow ==
  <<"M","a","x","i","m","u","m"," ","c","a","l","l"," ","s","t","a",
    "c","k"," ","s","i","z","e"," ","e","x","c","e","e","d","e","d">>

\* the Error handler h fails with
HandlerError(h) ==
  MkError("Error", IF h = "hThrow" THEN MsgHandlerThrew ELSE MsgHandlerRejected)

\* the RangeError of an exhausted call stack
StackOverflow == MkError("RangeError", MsgStackOverflow)

\* the event types handlers are registered for
BusTypes ==
  {"extract:start", "rateLimit", "extract:complete", "handler:error"}

\* removeAllListeners called without an event type
NoEventType == ""

\* the delivery options on resolves its argument to
EventOptions == [async : BOOLEAN, catchErrors : BOOLEAN]

\* the options argument of on: an object with or without the field async
\* and with or without the field catchErrors
RawOptions ==
  UNION { [D -> BOOLEAN] : D \in SUBSET {"async", "catchErrors"} }

\* { async: options.async ?? false, catchErrors: options.catchErrors ?? true }
resolveOptions(options) ==
  [async |-> IF "async" \in DOMAIN options THEN options.async ELSE FALSE,
   catchErrors |-> IF "catchErrors" \in DOMAIN options
                   THEN options.catchErrors ELSE TRUE]

\* Map.get(eventType) of eventHandlers, the empty sequence if there is no entry
HandlersOf(eh, eventType) ==
  IF eventType \in DOMAIN eh THEN eh[eventType] ELSE <<>>

\* eventOptions.get(eventType) ?? { async: false, catchErrors: true }
OptionsOf(eo, eventType) ==
  IF eventType \in DOMAIN eo THEN eo[eventType]
  ELSE [async |-> FALSE, catchErrors |-> TRUE]

\* Set.add: a handler already in the set keeps its place
SetAdd(s, h) == IF \E i \in DOMAIN s : s[i] = h THEN s ELSE Append(s, h)

\* Set.delete
SetDelete(s, h) == SelectSeq(s, LAMBDA x : x # h)

\* Map.set
MapSet(m, k, v) == [t \in DOMAIN m \cup {k} |-> IF t = k THEN v ELSE m[t]]

\* Map.delete
MapDelete(m, k) == [t \in DOMAIN m \ {k} |-> m[t]]

\* eventHandlers after on(eventType, handler)
on(eh, eventType, handler) ==
  MapSet(eh, eventType, SetAdd(HandlersOf(eh, eventType), handler))

\* off deleting no handler
off_Noop(eh, eventType, handler) == eh

\* eventHandlers after off(eventType, handler)
off(eh, eventType, handler) ==
  IF eventType \in DOMAIN eh
  THEN MapSet(eh, eventType, SetDelete(eh[eventType], handler))
  ELSE eh

\* eventHandlers after removeAllListeners(eventType)
removeAllListeners(eh, eventType) ==
  IF eventType # NoEventType THEN MapDelete(eh, eventType) ELSE EmptyMap

\* the bus as one value: the runs of emit and of handleEvent so far and the
\* events passed to emit on behalf of call p
Bus(p) == [emissions |-> emissions, tasks |-> tasks, log |-> emitted[p]]

\* the run t of handleEvent ends, or goes on, as st says
SetTask(b, t, st, e) ==
  [b EXCEPT !.tasks[t].st = st, !.tasks[t].error = e]

\* the runs of handleEvent of emission e
TasksOf(b, e) == { t \in DOMAIN b.tasks : b.tasks[t].emission = e }

\* how many emissions of handler:error emission e is nested in
RECURSIVE Depth(_, _)
Depth(b, e) ==
  IF b.emissions[e].parent = 0 THEN 0
  ELSE 1 + Depth(b, b.tasks[b.emissions[e].parent].emission)

\* settle awaiting the handlers whatever the delivery options
settle_AwaitAsync(b, e) ==
  LET em == b.emissions[e]
      ts == TasksOf(b, e)
      failed == { t \in ts : b.tasks[t].st = "failed" }
      first == CHOOSE t \in failed : \A u \in failed : t <= u
      st == IF failed # {} THEN "threw"
            ELSE IF \A t \in ts : b.tasks[t].st = "ok" THEN "returned"
            ELSE "open"
  IN IF em.st # "open" THEN b
     ELSE [b EXCEPT !.emissions[e].st = st,
                    !.emissions[e].thrown =
                       IF st = "threw" THEN b.tasks[first].error ELSE NoError]

\* settle with Promise.all fulfilled as soon as one handleEvent is
settle_Race(b, e) ==
  LET em == b.emissions[e]
      ts == TasksOf(b, e)
      failed == { t \in ts : b.tasks[t].st = "failed" }
      first == CHOOSE t \in failed : \A u \in failed : t <= u
      st == IF em.options.async THEN "returned"
            ELSE IF failed # {} THEN "threw"
            ELSE IF \E t \in ts : b.tasks[t].st = "ok" THEN "returned"
            ELSE "open"
  IN IF em.st # "open" THEN b
     ELSE [b EXCEPT !.emissions[e].st = st,
                    !.emissions[e].thrown =
                       IF st = "threw" THEN b.tasks[first].error ELSE NoError]

\* the end of emit: forEach has called every handler, or Promise.all is
\* fulfilled once every handleEvent is, and rejected with the first rejection
settle(b, e) ==
  LET em == b.emissions[e]
      ts == TasksOf(b, e)
      failed == { t \in ts : b.tasks[t].st = "failed" }
      first == CHOOSE t \in failed : \A u \in failed : t <= u
      st == IF em.options.async THEN "returned"
            ELSE IF failed # {} THEN "threw"
            ELSE IF \A t \in ts : b.tasks[t].st = "ok" THEN "returned"
            ELSE "open"
  IN IF em.st # "open" THEN b
     ELSE [b EXCEPT !.emissions[e].st = st,
                    !.emissions[e].thrown =
                       IF st = "threw" THEN b.tasks[first].error ELSE NoError]

RECURSIVE emit(_, _, _, _, _, _)
RECURSIVE invokeAll(_, _, _)
RECURSIVE handleEvent(_, _, _)
RECURSIVE handleCatch(_, _, _)

\* emit(eventType, data, error) up to its first suspension, called by call p
\* itself (parent = 0) or by the run parent of handleEvent
emit(b, p, parent, eventType, data, err) ==
  LET handlers == HandlersOf(eventHandlers, eventType)
      log == Emit(b.log, eventType, data, err, Undefined)
      e == Len(b.emissions) + 1
      em == [call |-> p, parent |-> parent, event |-> log[Len(log)],
             options |-> OptionsOf(eventOptions, eventType),
             handlers |-> handlers,
             st |-> IF Len(handlers) = 0 THEN "returned" ELSE "open",
             thrown |-> NoError]
      b1 == [b EXCEPT !.log = log, !.emissions = Append(@, em)]
  IN IF Len(handlers) = 0 THEN b1 ELSE settle(invokeAll(b1, e, 1), e)

\* the handlers of emission e are called in insertion order, from the i-th
invokeAll(b, e, i) ==
  IF i > Len(b.emissions[e].handlers) THEN b
  ELSE invokeAll(handleEvent(b, e, b.emissions[e].handlers[i]), e, i + 1)

\* handleEvent(handler) up to its first suspension
handleEvent(b, e, h) ==
  LET t == Len(b.tasks) + 1
      b1 == [b EXCEPT !.tasks = Append(@,
               [emission |-> e, handler |-> h,
                st |-> IF IsSync(h) /\ ~Fails(h) THEN "ok" ELSE "running",
                error |-> NoError])]
  IN IF IsSync(h) /\ Fails(h) THEN handleCatch(b1, t, HandlerError(h)) ELSE b1

\* handleCatch rethrowing whatever the delivery options
handleCatch_Rethrow(b, t, x) == SetTask(b, t, "failed", x)

\* the catch block of handleEvent, for the Error x of the handler of run t
handleCatch(b, t, x) ==
  LET e == b.tasks[t].emission
      em == b.emissions[e]
      n == Len(b.emissions) + 1
      b1 == emit(b, em.call, t, "handler:error", Undefined, x)
  IN IF ~em.options.catchErrors THEN SetTask(b, t, "failed", x)
     ELSE IF Depth(b, e) >= MaxNest THEN SetTask(b, t, "failed", StackOverflow)
     ELSE SetTask(b1, t,
                  IF b1.emissions[n].st = "returned" THEN "ok"
                  ELSE IF b1.emissions[n].st = "threw" THEN "failed"
                  ELSE "reporting",
                  b1.emissions[n].thrown)

\* emission e may have ended by a handleEvent that ended: the handleEvent
\* awaiting an emission of handler:error resumes, and so on upwards
RECURSIVE propagate(_, _)
propagate(b, e) ==
  LET b1 == settle(b, e)
      em == b1.emissions[e]
      b2 == SetTask(b1, em.parent,
                    IF em.st = "threw" THEN "failed" ELSE "ok", em.thrown)
  IN IF b.emissions[e].st # "open" \/ em.st = "open" \/ em.parent = 0 THEN b1
     ELSE propagate(b2, b2.tasks[em.parent].emission)

\* a call of extract has been made and has not returned or thrown
UnderWay == \E p \in Procs : pc[p] \notin {"idle", "done", "failed"}

\* the count n of the calls of on, or of off and removeAllListeners, made
\* while a call of extract is under way, after one more call
During(n) == IF UnderWay THEN n + 1 ELSE n

\* On keeping the delivery options a type already has
On_KeepFirst(eventType, handler, options) ==
  /\ busCalls.on < MaxOn
  /\ eventHandlers' = on(eventHandlers, eventType, handler)
  /\ eventOptions' = IF eventType \in DOMAIN eventOptions THEN eventOptions
                     ELSE MapSet(eventOptions, eventType,
                                 resolveOptions(options))
  /\ subscribed' = [on |-> subscribed.on \cup {<<eventType, handler>>},
                    off |-> subscribed.off \ {<<eventType, handler>>}]
  /\ busCalls' = [busCalls EXCEPT !.on = @ + 1, !.onDuring = During(@)]
  /\ UNCHANGED <<now, lastRequestTime, retryOptions, timeout, pc, request,
                 aborted, retryCount, wakeAt, timeoutId, emitted, answers,
                 released, result, error, emissions, tasks, cont>>

\* on(eventType, handler, options)
On(eventType, handler, options) ==
  /\ busCalls.on < MaxOn
  /\ eventHandlers' = on(eventHandlers, eventType, handler)
  /\ eventOptions' = MapSet(eventOptions, eventType, resolveOptions(options))
  /\ subscribed' = [on |-> subscribed.on \cup {<<eventType, handler>>},
                    off |-> subscribed.off \ {<<eventType, handler>>}]
  /\ busCalls' = [busCalls EXCEPT !.on = @ + 1, !.onDuring = During(@)]
  /\ UNCHANGED <<now, lastRequestTime, retryOptions, timeout, pc, request,
                 aborted, retryCount, wakeAt, timeoutId, emitted, answers,
                 released, result, error, emissions, tasks, cont>>

\* off(eventType, handler)
Off(eventType, handler) ==
  /\ busCalls.off < MaxOff
  /\ eventHandlers' = off(eventHandlers, eventType, handler)
  /\ subscribed' = [on |-> subscribed.on \ {<<eventType, handler>>},
                    off |-> subscribed.off \cup
                              (subscribed.on \cap {<<eventType, handler>>})]
  /\ busCalls' = [busCalls EXCEPT !.off = @ + 1, !.offDuring = During(@)]
  /\ UNCHANGED <<now, lastRequestTime, retryOptions, timeout, pc, request,
                 aborted, retryCount, wakeAt, timeoutId, emitted, answers,
                 released, result, error, eventOptions, emissions, tasks, cont>>

\* removeAllListeners(eventType), or removeAllListeners() if eventType is
\* NoEventType
RemoveAllListeners(eventType) ==
  /\ busCalls.off < MaxOff
  /\ eventHandlers' = removeAllListeners(eventHandlers, eventType)
  /\ subscribed' =
       LET gone == IF eventType = NoEventType THEN subscribed.on
                   ELSE { s \in subscribed.on : s[1] = eventType }
       IN [on |-> subscribed.on \ gone, off |-> subscribed.off \cup gone]
  /\ busCalls' = [busCalls EXCEPT !.off = @ + 1, !.offDuring = During(@)]
  /\ UNCHANGED <<now, lastRequestTime, retryOptions, timeout, pc, request,
                 aborted, retryCount, wakeAt, timeoutId, emitted, answers,
                 released, result, error, eventOptions, emissions, tasks, cont>>

\* call p calls emit and awaits it; at says which emit of the code it is,
\* response and e are what the call holds to go on with
Emitting(p, at, response, e, eventType, data, err) ==
  LET b == emit(Bus(p), p, 0, eventType, data, err) IN
  /\ pc' = [pc EXCEPT ![p] = "emitting"]
  /\ cont' = [cont EXCEPT ![p] = [at |-> at, emission |-> Len(emissions) + 1,
                                  response |-> response, error |-> e]]
  /\ emissions' = b.emissions
  /\ tasks' = b.tasks
  /\ emitted' = [emitted EXCEPT ![p] = b.log]
  /\ UNCHANGED <<wakeAt, result, error>>

\* call p goes on to its next suspension without another emit, or ends
Proceed(p, next, res, e) ==
  /\ pc' = [pc EXCEPT ![p] = next]
  /\ wakeAt' = [wakeAt EXCEPT
                  ![p] = IF next = "backoff" THEN now + delay(retryCount[p])
                         ELSE NoTimer]
  /\ result' = [result EXCEPT ![p] = res]
  /\ error' = [error EXCEPT ![p] = e]
  /\ UNCHANGED <<cont, emissions, tasks, emitted>>

\* the catch block of retryableRequest, up to its first emit
retryableRequestCatch(p, e) ==
  IF e.name = "AbortError"
  THEN Emitting(p, "timeout", NoResponse, e, "timeout", Undefined, e)
  ELSE Emitting(p, "request:error", NoResponse, e,
                "request:error", Undefined, e)

\* the catch block of extract, up to its emit
extractCatchEmit(p, e) ==
  Emitting(p, "extract:error", NoResponse, e, "extract:error", Undefined, e)

\* extract is called on a client that may have handlers
ExtractBus(p, urls) ==
  /\ pc[p] = "idle"
  /\ \E url \in urls :
       /\ request' = [request EXCEPT
                        ![p] = [url |-> url, hasSignal |-> FALSE]]
       /\ Emitting(p, "extract:start", NoResponse, NoError, "extract:start",
                   [url |-> url, hasSignal |-> FALSE], NoError)
  /\ UNCHANGED <<now, lastRequestTime, retryOptions, timeout, aborted,
                 retryCount, timeoutId, answers, released, eventHandlers,
                 eventOptions, subscribed, busCalls>>

\* fetch settles for the attempt in flight of a client that may have
\* handlers: with a response that is not retried retryableRequest returns
\* and extract goes on to read the body
RespondBus(p, as) ==
  /\ pc[p] = "fetching"
  /\ \E a \in as :
       /\ answers' = [answers EXCEPT ![p] = Append(answers[p], a)]
       /\ IF a.kind # "response"
          THEN retryableRequestCatch(p, fetchCatch(a.error))
          ELSE IF a.status = 429 /\ retryCount[p] < retryOptions.maxRetries
          THEN Emitting(p, "rateLimit", a, NoError, "rateLimit",
                        [retryCount |-> retryCount[p]], NoError)
          ELSE Proceed(p, "readingBody", NoResult, NoError)
  /\ timeoutId' = [timeoutId EXCEPT ![p] = NoTimer]
  /\ UNCHANGED <<now, lastRequestTime, retryOptions, timeout, request,
                 aborted, retryCount, released, eventHandlers, eventOptions,
                 subscribed, busCalls>>

\* response.json() settles for the response extract holds, on a client that
\* may have handlers: it gives the body, or it rejects with one of errs
ReadBodyBus(p, errs) ==
  /\ pc[p] = "readingBody"
  /\ LET a == answers[p][Len(answers[p])] IN
     \/ /\ IF extractResponse(<<>>, a).next = "done"
           THEN Emitting(p, "extract:complete", a, NoError,
                         "extract:complete", a.body, NoError)
           ELSE extractCatchEmit(p,
                                 extractResponse(<<>>, a).emitted[1].error)
        /\ UNCHANGED answers
     \/ \E e \in errs :
          /\ answers' = [answers EXCEPT
                           ![p][Len(answers[p])] = FailedBody(@, e)]
          /\ extractCatchEmit(p, e)
  /\ UNCHANGED <<now, lastRequestTime, retryOptions, timeout, request,
                 aborted, retryCount, timeoutId, released,
                 eventHandlers, eventOptions, subscribed, busCalls>>

\* the emit call p awaits has returned or thrown: the call goes on
EmitDone(p) ==
  /\ pc[p] = "emitting"
  /\ emissions[cont[p].emission].st # "open"
  /\ LET c == cont[p]
         threw == emissions[c.emission].st = "threw"
         x == emissions[c.emission].thrown
         retry == /\ retryCount[p] < retryOptions.maxRetries
                  /\ isRetryableError(c.error)
     IN CASE c.at = "extract:start" ->
               IF threw THEN Proceed(p, "failed", NoResult, x)
               ELSE Proceed(p, "validate", NoResult, NoError)
          [] c.at = "rateLimit" ->
               IF threw THEN retryableRequestCatch(p, x)
               ELSE Emitting(p, "request:retry in try", c.response, NoError,
                             "request:retry", [retryCount |-> retryCount[p]],
                             NoError)
          [] c.at = "request:retry in try" ->
               IF threw THEN retryableRequestCatch(p, x)
               ELSE Proceed(p, "backoff", NoResult, NoError)
          [] c.at = "timeout" ->
               IF threw THEN extractCatchEmit(p, x)
               ELSE Emitting(p, "request:error", NoResponse, c.error,
                             "request:error", Undefined, c.error)
          [] c.at = "request:error" ->
               IF threw THEN extractCatchEmit(p, x)
               ELSE IF retry
               THEN Emitting(p, "request:retry in catch", NoResponse, c.error,
                             "request:retry", [retryCount |-> retryCount[p]],
                             NoError)
               ELSE extractCatchEmit(p, c.error)
          [] c.at = "request:retry in catch" ->
               IF threw THEN extractCatchEmit(p, x)
               ELSE Proceed(p, "backoff", NoResult, NoError)
          [] c.at = "extract:complete" ->
               IF threw THEN extractCatchEmit(p, x)
               ELSE Proceed(p, "done",
                            extractResponse(<<>>, c.response).result, NoError)
          [] c.at = "extract:error" ->
               Proceed(p, "failed", NoResult,
                       IF threw THEN x ELSE extractCatch(<<>>, c.error).error)
  /\ UNCHANGED <<now, lastRequestTime, retryOptions, timeout, request,
                 aborted, retryCount, timeoutId, answers, released,
                 eventHandlers, eventOptions, subscribed, busCalls>>

\* the promise the handler of run t returned is fulfilled or rejected:
\* handleEvent goes on
HandlerSettles(t) ==
  /\ t \in DOMAIN tasks
  /\ tasks[t].st = "running"
  /\ LET h == tasks[t].handler
         e == tasks[t].emission
         p == emissions[e].call
         b == IF Fails(h) THEN handleCatch(Bus(p), t, HandlerError(h))
              ELSE SetTask(Bus(p), t, "ok", NoError)
         b1 == IF b.tasks[t].st = "reporting" THEN b ELSE propagate(b, e)
     IN /\ (Fails(h) /\ emissions[e].options.catchErrors)
             => Depth(Bus(p), e) < MaxNest
        /\ emissions' = b1.emissions
        /\ tasks' = b1.tasks
        /\ emitted' = [emitted EXCEPT ![p] = b1.log]
  /\ UNCHANGED <<now, lastRequestTime, retryOptions, timeout, pc, request,
                 aborted, retryCount, wakeAt, timeoutId, answers, released,
                 result, error, eventHandlers, eventOptions, subscribed,
                 busCalls, cont>>

\* time passes while a call sleeps on a timer that is not due, or waits
\* for the body of a response
Sleep ==
  /\ \E p \in Procs : \/ pc[p] \in {"rateLimit", "backoff"} /\ now < wakeAt[p]
                      \/ pc[p] = "readingBody"
  /\ Tick

\* the body of the response a call reads is not overdue
BodyInTime ==
  \A p \in Procs :
    pc[p] = "readingBody"
      => now < released[Len(released)].time + MaxBodyDelay

\* what response.json() rejects with in the runs with handlers
BusBodyErrors ==
  { MkError("TypeError", MsgTerminated), MkError("SyntaxError", MsgNotJson) }

\* what the transport answers in the runs with handlers
BusAnswers ==
  { MkResponse(200, TRUE, <<"row1">>, <<>>),
    MkResponse(429, FALSE, <<>>, <<>>),
    MkReject(MkError("TypeError", MsgNetworkDown)) }

\* one extract call on a client whose handlers were subscribed, and
\* unsubscribed, before the call, and with a transport whose bodies arrive,
\* or fail, within MaxBodyDelay
NextBus ==
  \/ /\ pc[1] = "idle"
     /\ \E t \in BusTypes, h \in HandlerIds, o \in EventOptions : On(t, h, o)
  \/ /\ pc[1] = "idle"
     /\ \E t \in BusTypes, h \in HandlerIds : Off(t, h)
  \/ /\ pc[1] = "idle"
     /\ \E t \in BusTypes \cup {NoEventType} : RemoveAllListeners(t)
  \/ ExtractBus(1, {"https://example.com"})
  \/ EmitDone(1)
  \/ \E t \in DOMAIN tasks : HandlerSettles(t)
  \/ Validate(1)
  \/ RateLimitWake(1)
  \/ RespondBus(1, BusAnswers)
  \/ ReadBodyBus(1, BusBodyErrors)
  \/ BackoffWake(1)
  \/ BodyInTime /\ Sleep

InitBus == Init /\ retryOptions.maxRetries <= MaxRetriesBus

SpecBus == InitBus /\ [][NextBus]_vars

\* the event types handlers are subscribed for, and unsubscribed from, at
\* any time
DynTypes == {"extract:start", "extract:complete", "handler:error"}

\* the options argument of on in these runs: {}, { catchErrors: false },
\* { async: true }, { async: false, catchErrors: true } and
\* { async: true, catchErrors: false }
DynOptions ==
  { o \in RawOptions :
      \/ DOMAIN o = {}
      \/ DOMAIN o = {"catchErrors"} /\ ~o.catchErrors
      \/ DOMAIN o = {"async"} /\ o.async
      \/ DOMAIN o = {"async", "catchErrors"} /\ o.async # o.catchErrors }

\* the handlers subscribed in these runs
DynHandlers == {"hReturn", "hResolve", "hThrow"}

\* what response.json() rejects with in these runs
DynBodyErrors == { MkError("TypeError", MsgTerminated) }

\* what the transport answers in these runs
DynAnswers == { MkResponse(200, TRUE, <<"row1">>, <<>>) }

\* one extract call on a client whose user calls on, off and
\* removeAllListeners at any time: before the call, while the call awaits a
\* handler, the transport or the body, and after the call
NextDyn ==
  \/ \E t \in DynTypes, h \in DynHandlers, o \in DynOptions : On(t, h, o)
  \/ \E t \in DynTypes, h \in DynHandlers : Off(t, h)
  \/ \E t \in DynTypes \cup {NoEventType} : RemoveAllListeners(t)
  \/ ExtractBus(1, {"https://example.com"})
  \/ EmitDone(1)
  \/ \E t \in DOMAIN tasks : HandlerSettles(t)
  \/ Validate(1)
  \/ RespondBus(1, DynAnswers)
  \/ ReadBodyBus(1, DynBodyErrors)

InitDyn == Init /\ retryOptions.maxRetries = 0

SpecDyn == InitDyn /\ [][NextDyn]_vars

\* the promise of a failing handler is rejected in an emission nested
\* MaxNest deep, with catchErrors = true: handleEvent emits handler:error
\* once more.  That emission is not unfolded: on a client whose handlers
\* are not subscribed or unsubscribed during the call it has the handlers
\* and the options of this one and the same Error to report, so that it
\* goes the way this one went.  Delivered with async = true it returns at once;
\* otherwise a handler that throws recurses until the call stack is
\* exhausted, and without one handleEvent awaits an emission that awaits
\* the next, without end
HandlerSettlesNested(t) ==
  /\ t \in DOMAIN tasks
  /\ tasks[t].st = "running"
  /\ LET h == tasks[t].handler
         e == tasks[t].emission
         em == emissions[e]
         p == em.call
         next == HandlersOf(eventHandlers, "handler:error")
         b == IF OptionsOf(eventOptions, "handler:error").async
              THEN SetTask(Bus(p), t, "ok", NoError)
              ELSE IF \E i \in DOMAIN next : IsSync(next[i]) /\ Fails(next[i])
              THEN SetTask(Bus(p), t, "failed", StackOverflow)
              ELSE SetTask(Bus(p), t, "reporting", NoError)
         b1 == IF b.tasks[t].st = "reporting" THEN b ELSE propagate(b, e)
     IN /\ Fails(h)
        /\ em.options.catchErrors
        /\ Depth(Bus(p), e) >= MaxNest
        /\ emissions' = b1.emissions
        /\ tasks' = b1.tasks
  /\ UNCHANGED <<now, lastRequestTime, retryOptions, timeout, pc, request,
                 aborted, retryCount, wakeAt, timeoutId, emitted, answers,
                 released, result, error, eventHandlers, eventOptions,
                 subscribed, busCalls, cont>>

\* one extract call on a client with handlers for rateLimit and for
\* handler:error, subscribed before the call: in NextBus, the steps of a
\* behaviour in which every timer fires, the transport answers, and every
\* promise of a handler is settled
NextLive ==
  \/ /\ pc[1] = "idle"
     /\ \E t \in {"rateLimit", "handler:error"}, h \in HandlerIds,
           o \in RawOptions : On(t, h, o)
  \/ ExtractBus(1, {"https://example.com"})
  \/ EmitDone(1)
  \/ \E t \in DOMAIN tasks : HandlerSettles(t)
  \/ \E t \in DOMAIN tasks : HandlerSettlesNested(t)
  \/ Validate(1)
  \/ RateLimitWake(1)
  \/ RespondBus(1, BusAnswers)
  \/ ReadBodyBus(1, BusBodyErrors)
  \/ BackoffWake(1)
  \/ BodyInTime /\ Sleep

\* HandlerSettles can take a step: ENABLED <<HandlerSettles(t)>>_vars for
\* some t, as a predicate on the state
HandlerCanSettle ==
  \E t \in DOMAIN tasks :
    /\ tasks[t].st = "running"
    /\ (Fails(tasks[t].handler)
          /\ emissions[tasks[t].emission].options.catchErrors)
         => Depth(Bus(emissions[tasks[t].emission].call), tasks[t].emission)
              < MaxNest

\* ENABLED <<EmitDone(1)>>_vars as a predicate on the state
EmitCanBeDone ==
  pc[1] = "emitting" /\ emissions[cont[1].emission].st # "open"

\* every promise a handler returned is settled in the end, a call whose
\* emit has returned is resumed, the transport answers every attempt and
\* delivers every body, and time passes until the timer a call sleeps on fires.  The first three
\* conjuncts are WF_vars of HandlerSettles, EmitDone, RespondBus and
\* ReadBodyBus written out, with the predicate ENABLED stands for
Fairness ==
  /\ \/ []<>(~HandlerCanSettle)
     \/ []<><<\E t \in DOMAIN tasks : HandlerSettles(t)>>_vars
  /\ \/ []<>(~EmitCanBeDone)
     \/ []<><<EmitDone(1)>>_vars
  /\ \/ []<>(pc[1] # "fetching")
     \/ []<><<RespondBus(1, BusAnswers)>>_vars
  /\ \/ []<>(pc[1] # "readingBody")
     \/ []<><<ReadBodyBus(1, BusBodyErrors)>>_vars
  /\ WF_vars(\E t \in DOMAIN tasks : HandlerSettlesNested(t))
  /\ WF_vars(Validate(1))
  /\ WF_vars(RateLimitWake(1))
  /\ WF_vars(BackoffWake(1))
  /\ WF_vars(Sleep)

SpecLive == InitBus /\ [][NextLive]_vars /\ Fairness

(***************************************************************************)
(* Observations on a state                                                 *)
(***************************************************************************)
\* the number of attempts of call p handed to the transport
AttemptsOf(p) ==
  Cardinality({ i \in DOMAIN released : released[i].call = p })

\* fetch resolved with a response, whatever became of its body afterwards
Responded(a) == a.kind \in {"response", "cancelBody", "bodyError"}

\* response.status === 429
Is429(a) == Responded(a) /\ a.status = 429

\* the response arrived in full: response.json() gave its body, or rejected
\* it because it is not JSON
Arrived(a) ==
  \/ a.kind = "response"
  \/ a.kind = "bodyError" /\ a.error.name = "SyntaxError"

\* a success status with a non-empty data collection
IsSuccess(a) ==
  a.kind = "response" /\ a.ok /\ a.body.hasData /\ Len(a.body.data) > 0

\* a success status with an empty or missing data collection
IsEmptySuccess(a) ==
  a.kind = "response" /\ a.ok /\ (~a.body.hasData \/ Len(a.body.data) = 0)

All429(as) == \A i \in DOMAIN as : Is429(as[i])

\* the call is in the retry loop: suspended on a timer or on fetch
Running(p) == pc[p] \in {"rateLimit", "fetching", "backoff"}

\* extract is past response.json(): the body of the last response has
\* arrived, or the read of it has failed
BodyRead(p) == pc[p] # "readingBody"

Terminated(p) == pc[p] \in {"done", "failed"}

(***************************************************************************)
(* C1: every extract call, with a well-formed or a malformed URL, emits    *)
(* extract:start exactly once, as its first event, before the URL is       *)
(* validated and before any attempt is handed to the transport.            *)
(***************************************************************************)
C1_StartOnceFirst ==
  \A p \in Procs :
    /\ pc[p] = "idle" => emitted[p] = <<>>
    /\ pc[p] # "idle" =>
         /\ Count(emitted[p], "extract:start") = 1
         /\ emitted[p][1].type = "extract:start"
         /\ \A i \in DOMAIN released :
              released[i].call = p =>
                emitted[p][1].timestamp <= released[i].time
    /\ pc[p] = "validate" => AttemptsOf(p) = 0 /\ error[p] = NoError

\* a call with a malformed URL has failed validation, after the emission
C1_Witness ==
  \E p \in Procs :
    /\ ~URLParses(request[p].url)
    /\ pc[p] = "failed"
    /\ error[p].message = MsgInvalidUrl
    /\ Count(emitted[p], "extract:start") = 1

(***************************************************************************)
(* C2: when the transport answers 429 k times, k <= maxRetries, and then   *)
(* succeeds with a non-empty payload, the call makes k+1 attempts, emits   *)
(* rateLimit and request:retry k times each and extract:complete once, and *)
(* returns the data collection of the success payload, once the payload    *)
(* has arrived.  While only 429s have been answered, at most maxRetries of *)
(* them, the call is still in the retry loop.                              *)
(***************************************************************************)
C2_RetryThenSuccess ==
  \A p \in Procs :
    LET as == answers[p]
        n == Len(as)
    IN /\ (n > 0 /\ n <= retryOptions.maxRetries /\ All429(as)) =>
            /\ Running(p)
            /\ Count(emitted[p], "rateLimit") = n
            /\ Count(emitted[p], "request:retry") = n
       /\ (n > 0 /\ All429(SubSeq(as, 1, n - 1)) /\ IsSuccess(as[n])) =>
            /\ AttemptsOf(p) = n
            /\ ~BodyRead(p) => Count(emitted[p], "extract:complete") = 0
       /\ (n > 0 /\ All429(SubSeq(as, 1, n - 1)) /\ IsSuccess(as[n])
             /\ BodyRead(p)) =>
            /\ pc[p] = "done"
            /\ AttemptsOf(p) = n
            /\ Count(emitted[p], "rateLimit") = n - 1
            /\ Count(emitted[p], "request:retry") = n - 1
            /\ Count(emitted[p], "extract:complete") = 1
            /\ result[p] = [returned |-> TRUE, data |-> as[n].body.data]

\* 429, 429, success: three attempts, two rateLimit, two request:retry
C2_Witness ==
  \E p \in Procs :
    /\ Len(answers[p]) = 3
    /\ Is429(answers[p][1]) /\ Is429(answers[p][2]) /\ IsSuccess(answers[p][3])
    /\ pc[p] = "done"
    /\ AttemptsOf(p) = 3
    /\ Count(emitted[p], "rateLimit") = 2
    /\ Count(emitted[p], "request:retry") = 2

(***************************************************************************)
(* C3: when the transport answers 429 to every attempt, the call makes     *)
(* maxRetries+1 attempts and then, when response.json() has settled for    *)
(* the last 429, fails with the rate-limit failure: extract:error is       *)
(* emitted once with it, extract:complete never, and extract throws it     *)
(* under the 'Failed to extract data: ' prefix.                            *)
(***************************************************************************)
C3_Always429 ==
  \A p \in Procs :
    LET as == answers[p]
        n == Len(as)
    IN All429(as) =>
         /\ n <= retryOptions.maxRetries + 1
         /\ AttemptsOf(p) <= retryOptions.maxRetries + 1
         /\ (n > 0 /\ n <= retryOptions.maxRetries) => Running(p)
         /\ n = retryOptions.maxRetries + 1 =>
              /\ AttemptsOf(p) = retryOptions.maxRetries + 1
              /\ Count(emitted[p], "extract:complete") = 0
         /\ (n = retryOptions.maxRetries + 1 /\ BodyRead(p)) =>
              /\ pc[p] = "failed"
              /\ AttemptsOf(p) = retryOptions.maxRetries + 1
              /\ Count(emitted[p], "extract:error") = 1
              /\ Count(emitted[p], "extract:complete") = 0
              /\ emitted[p][Len(emitted[p])].type = "extract:error"
              /\ emitted[p][Len(emitted[p])].error.message = MsgRateLimit
              /\ error[p].message = MsgWrapPrefix \o MsgRateLimit
              /\ result[p] = NoResult

(***************************************************************************)
(* C4: two consecutive attempts handed to the transport by one client      *)
(* instance, whichever of the two concurrent calls they belong to, are at  *)
(* least minRequestInterval apart.                                         *)
(***************************************************************************)
C4_SpacingAcrossCalls ==
  \A i \in DOMAIN released :
    i > 1 => released[i].time - released[i - 1].time >= minRequestInterval

(***************************************************************************)
(* C5: an attempt whose timeout timer fires before the transport answers   *)
(* fails with the TimeoutError 'Request timed out': the request:error and  *)
(* extract:error events of the attempt carry it and extract throws it.     *)
(***************************************************************************)
TimeoutFailure == MkError("TimeoutError", MsgTimedOut)

C5_DeadlineIsTimeout ==
  \A p \in Procs :
    (answers[p] # <<>> /\ answers[p][Len(answers[p])] = TimedOut) =>
      /\ pc[p] = "failed"
      /\ error[p] = TimeoutFailure
      /\ Len(emitted[p]) >= 2
      /\ emitted[p][Len(emitted[p]) - 1].type = "request:error"
      /\ emitted[p][Len(emitted[p]) - 1].error = TimeoutFailure
      /\ emitted[p][Len(emitted[p])].type = "extract:error"
      /\ emitted[p][Len(emitted[p])].error = TimeoutFailure

\* the timer of an attempt fired while the caller's signal had not aborted
C5_Witness ==
  \E p \in Procs :
    /\ answers[p] # <<>>
    /\ answers[p][Len(answers[p])] = TimedOut
    /\ ~aborted[p]
    /\ pc[p] = "failed"
    /\ error[p].message = MsgTimedOut

(***************************************************************************)
(* C6: when the attempt in flight is aborted by the caller's signal, the   *)
(* failure extract throws is not the failure it throws for a deadline that *)
(* elapsed.                                                                *)
(***************************************************************************)
C6_CancelledIsNotTimeout ==
  \A p \in Procs :
    (answers[p] # <<>> /\ answers[p][Len(answers[p])] = Cancelled
       /\ pc[p] = "failed") =>
      error[p] # TimeoutFailure

(***************************************************************************)
(* C7: no attempt of a call is handed to the transport once the caller's   *)
(* signal has aborted.                                                     *)
(***************************************************************************)
C7_NoAttemptAfterCancel ==
  \A i \in DOMAIN released : ~released[i].cancelled

(***************************************************************************)
(* C8: a call whose URL does not parse fails in validation with the Error  *)
(* 'Invalid URL format', unwrapped; it emits no extract:error, does not    *)
(* enter the rate limiter and hands no attempt to the transport.           *)
(***************************************************************************)
C8_InvalidUrl ==
  \A p \in Procs :
    (~URLParses(request[p].url) /\ pc[p] \notin {"idle", "validate"}) =>
      /\ pc[p] = "failed"
      /\ error[p] = MkError("Error", MsgInvalidUrl)
      /\ Count(emitted[p], "extract:error") = 0
      /\ Len(emitted[p]) = 1
      /\ AttemptsOf(p) = 0
      /\ answers[p] = <<>>
      /\ wakeAt[p] = NoTimer
      /\ timeoutId[p] = NoTimer
      /\ (\A q \in Procs \ {p} : pc[q] = "idle") => lastRequestTime = 0

\* a call with a malformed URL has failed
C8_Witness ==
  \E p \in Procs :
    /\ request[p].url = "invalid-url"
    /\ pc[p] = "failed"
    /\ error[p].message = MsgInvalidUrl
    /\ released = <<>>

(***************************************************************************)
(* C9: when the transport answers with a success status and a body with an *)
(* empty or missing data collection, extract, having read it, fails:       *)
(* extract:error carries an Error                                          *)
(* whose message is the server's message if it has one and the fixed       *)
(* explanation otherwise, extract throws an Error carrying that message,   *)
(* nothing is returned and extract:complete is not emitted.                *)
(***************************************************************************)
C9_NoData ==
  \A p \in Procs :
    LET as == answers[p] IN
    (as # <<>> /\ IsEmptySuccess(as[Len(as)]) /\ BodyRead(p)) =>
      LET m == as[Len(as)].body.message
          msg == IF Truthy(m) THEN m ELSE MsgNoData
          last == emitted[p][Len(emitted[p])]
      IN /\ pc[p] = "failed"
         /\ result[p] = NoResult
         /\ Count(emitted[p], "extract:complete") = 0
         /\ last.type = "extract:error"
         /\ last.error = MkError("Error", msg)
         /\ error[p].message \in {msg, MsgWrapPrefix \o msg}

\* the transport answered a success status with an empty data collection
\* and no message
C9_Witness ==
  \E p \in Procs :
    /\ answers[p] # <<>>
    /\ answers[p][Len(answers[p])] = MkResponse(200, TRUE, <<>>, <<>>)
    /\ pc[p] = "failed"
    /\ error[p].message = MsgWrapPrefix \o MsgNoData

(***************************************************************************)
(* C10: a call that fails after URL validation emits extract:error exactly *)
(* once with the failure; extract throws a Timeout failure as it is and    *)
(* every other failure as an Error whose message is 'Failed to extract     *)
(* data: ' followed by the message of the failure.                         *)
(***************************************************************************)
C10_WrapAllButTimeout ==
  \A p \in Procs :
    (pc[p] = "failed" /\ AttemptsOf(p) > 0) =>
      LET last == emitted[p][Len(emitted[p])] IN
      /\ Count(emitted[p], "extract:error") = 1
      /\ last.type = "extract:error"
      /\ IF last.error.name = "TimeoutError"
         THEN error[p] = last.error
         ELSE error[p] = MkError("Error", MsgWrapPrefix \o last.error.message)

(***************************************************************************)
(* Observations on the attempt that ended last                             *)
(***************************************************************************)
\* the last answer to call p
LastAnswer(p) == answers[p][Len(answers[p])]

\* the Error fetchWithTimeout throws for an attempt the transport failed,
\* the timer aborted or the caller's signal aborted
FailureOf(a) == IF a.kind = "reject" THEN a.error ELSE TimeoutFailure

\* the i-th event from the end of the log of call p (0 is the last one)
FromEnd(p, i) == emitted[p][Len(emitted[p]) - i]

(***************************************************************************)
(* C11: a response that is not ok and ends the call is turned into one     *)
(* Error by its status: 401 into the invalid-key Error, 429 (which ends    *)
(* the call only at retryCount = maxRetries) into the rate-limit Error,    *)
(* 400 into 'Bad request: ' with the server's message, every other status  *)
(* into 'Parsera API error: ' with the server's message or the status      *)
(* text, once response.json() has settled in handleError, whether the body *)
(* is JSON or not; extract:error carries it, nothing is returned and       *)
(* extract:complete is not emitted.                                        *)
(***************************************************************************)
C11_StatusMapping ==
  \A p \in Procs :
    (answers[p] # <<>> /\ Arrived(LastAnswer(p)) /\ ~LastAnswer(p).ok) =>
      LET a == LastAnswer(p)
          m == IF a.kind = "response" THEN a.body.message ELSE <<>>
      IN /\ (a.status = 429 /\ Len(answers[p]) <= retryOptions.maxRetries)
              => Running(p)
         /\ (a.status # 429 \/ Len(answers[p]) > retryOptions.maxRetries) =>
              /\ pc[p] \in {"readingBody", "failed"}
              /\ result[p] = NoResult
              /\ Count(emitted[p], "extract:complete") = 0
         /\ ((a.status # 429 \/ Len(answers[p]) > retryOptions.maxRetries)
               /\ BodyRead(p)) =>
              /\ pc[p] = "failed"
              /\ result[p] = NoResult
              /\ Count(emitted[p], "extract:complete") = 0
              /\ FromEnd(p, 0).type = "extract:error"
              /\ FromEnd(p, 0).error.name = "Error"
              /\ a.status = 401 => FromEnd(p, 0).error.message = MsgUnauthorized
              /\ a.status = 429 => FromEnd(p, 0).error.message = MsgRateLimit
              /\ a.status = 400 =>
                   FromEnd(p, 0).error.message =
                     MsgBadRequestPrefix \o
                       (IF m = <<>> THEN MsgUnknownError ELSE m)
              /\ a.status \notin {401, 429, 400} =>
                   FromEnd(p, 0).error.message =
                     MsgApiErrorPrefix \o
                       (IF m = <<>> THEN a.statusText ELSE m)
              /\ error[p].message = MsgWrapPrefix \o FromEnd(p, 0).error.message

(***************************************************************************)
(* C18: when an attempt ends in a failure of the transport: if the failure *)
(* is retryable and the retryCount of the attempt is below maxRetries,     *)
(* request:error and then request:retry are emitted, the call sleeps the   *)
(* backoff, and the next attempt runs with retryCount + 1; otherwise no    *)
(* request:retry is emitted, no further attempt is made and extract:error  *)
(* carries the same failure.                                               *)
(***************************************************************************)
C18_FailurePath ==
  \A p \in Procs :
    (/\ answers[p] # <<>>
     /\ ~Responded(LastAnswer(p))) =>
      LET e == FailureOf(LastAnswer(p))
          n == Len(answers[p])
          rc == n - 1
      IN IF isRetryableError(e) /\ rc < retryOptions.maxRetries
         THEN /\ Running(p)
              /\ FromEnd(p, 1).type = "request:error"
              /\ FromEnd(p, 1).error = e
              /\ FromEnd(p, 0).type = "request:retry"
              /\ pc[p] = "backoff" =>
                   /\ retryCount[p] = rc
                   /\ AttemptsOf(p) = n
                   /\ wakeAt[p] = FromEnd(p, 0).timestamp + delay(rc)
              /\ pc[p] \in {"rateLimit", "fetching"} => retryCount[p] = rc + 1
              /\ pc[p] = "rateLimit" => AttemptsOf(p) = n
              /\ pc[p] = "fetching" => AttemptsOf(p) = n + 1
         ELSE /\ pc[p] = "failed"
              /\ retryCount[p] = rc
              /\ AttemptsOf(p) = n
              /\ FromEnd(p, 1).type = "request:error"
              /\ FromEnd(p, 1).error = e
              /\ FromEnd(p, 0).type = "extract:error"
              /\ FromEnd(p, 0).error = e
              /\ Count(emitted[p], "request:retry") = rc

\* a retryable failure has been retried: the attempt after it is in flight
C18_Witness ==
  \E p \in Procs :
    /\ answers[p] # <<>>
    /\ LastAnswer(p) = MkReject(MkError("TypeError", MsgNetworkDown))
    /\ pc[p] = "fetching"
    /\ retryCount[p] = Len(answers[p])
    /\ FromEnd(p, 0).type = "request:retry"

(***************************************************************************)
(* C19: an attempt that ends with the TimeoutError of the deadline wrapper *)
(* is the last attempt of its call, whatever maxRetries: no request:retry  *)
(* follows it and extract throws that TimeoutError.                        *)
(***************************************************************************)
C19_TimeoutNotRetried ==
  \A p \in Procs :
    \A i \in DOMAIN answers[p] :
      answers[p][i] = TimedOut =>
        /\ i = Len(answers[p])
        /\ pc[p] = "failed"
        /\ AttemptsOf(p) = i
        /\ Count(emitted[p], "request:retry") = i - 1
        /\ FromEnd(p, 0).type # "request:retry"
        /\ error[p] = TimeoutFailure

\* the first attempt of a call that could still retry has timed out
C19_Witness ==
  \E p \in Procs :
    /\ answers[p] = <<TimedOut>>
    /\ retryOptions.maxRetries > 0
    /\ pc[p] = "failed"
    /\ AttemptsOf(p) = 1

(***************************************************************************)
(* C20: when an attempt fails with the TimeoutError of the deadline        *)
(* wrapper, a timeout event is emitted for it, before the request:error    *)
(* event of that attempt.                                                  *)
(***************************************************************************)
C20_TimeoutEvent ==
  \A p \in Procs :
    (answers[p] # <<>> /\ LastAnswer(p) = TimedOut) =>
      /\ Len(emitted[p]) >= 3
      /\ FromEnd(p, 2).type = "timeout"
      /\ FromEnd(p, 1).type = "request:error"

(***************************************************************************)
(* C17: with calls that do not overlap, every attempt of the instance, the *)
(* first of a call or a retry, is handed to the transport at least         *)
(* minRequestInterval after the attempt before it; lastRequestTime is the  *)
(* time of the last attempt handed over; a call waiting in the rate        *)
(* limiter has not failed and wakes minRequestInterval after               *)
(* lastRequestTime.                                                        *)
(***************************************************************************)
C17_SpacingSequential ==
  /\ \A i \in DOMAIN released :
       i > 1 => released[i].time - released[i - 1].time >= minRequestInterval
  /\ released # <<>> => lastRequestTime = released[Len(released)].time
  /\ released = <<>> => lastRequestTime = 0
  /\ \A p \in Procs :
       pc[p] = "rateLimit" =>
         /\ error[p] = NoError
         /\ wakeAt[p] = lastRequestTime + minRequestInterval

\* the first attempt of call 2 waited for the interval after the last
\* attempt of call 1, and a retry waited after the attempt before it
C17_Witness ==
  \E i, j \in DOMAIN released :
    /\ i > 1 /\ j > 1
    /\ released[i].call = 2 /\ released[i].retryCount = 0
    /\ released[i - 1].call = 1
    /\ released[i].time - released[i - 1].time = minRequestInterval
    /\ released[j].retryCount > 0
    /\ released[j].time - released[j - 1].time = minRequestInterval

\* the handlers invoked by emission e, in a bus with the runs ts of handleEvent
InvokedBy(ts, e) ==
  { ts[t].handler : t \in { u \in DOMAIN ts : ts[u].emission = e } }

(***************************************************************************)
(* C12: an emission invokes the handlers subscribed for its type and no    *)
(* other: not a handler unsubscribed with off(type, h) and not subscribed  *)
(* again, while the other handlers of the type are still invoked; no       *)
(* handler at all after removeAllListeners(); after                        *)
(* removeAllListeners(type), none of that type and all of the other types; *)
(* whether on, off and removeAllListeners were called before the call of   *)
(* extract or during it.                                                   *)
(***************************************************************************)
C12_Unsubscribed ==
  [][\A e \in DOMAIN emissions' \ DOMAIN emissions :
       LET eventType == emissions'[e].event.type IN
       /\ InvokedBy(tasks', e)
            = { h \in HandlerIds : <<eventType, h>> \in subscribed.on }
       /\ \A h \in InvokedBy(tasks', e) :
            <<eventType, h>> \notin subscribed.off]_vars

\* two handlers were subscribed for extract:complete before the call, one
\* of them was unsubscribed during the call, and the emission of
\* extract:complete has invoked the other one only
C12_Witness ==
  /\ busCalls.onDuring = 0
  /\ busCalls.offDuring = 1
  /\ \E e \in DOMAIN emissions :
       /\ emissions[e].event.type = "extract:complete"
       /\ InvokedBy(tasks, e) # {}
       /\ \E s \in subscribed.off :
            s[1] = "extract:complete" /\ s[2] \notin InvokedBy(tasks, e)

(***************************************************************************)
(* C13: in the default delivery mode (async = false) emit does not return  *)
(* to the operation awaiting it before every handler subscribed for the    *)
(* type has been invoked and has completed; so every handler of            *)
(* extract:start has completed before an attempt of the call is handed to  *)
(* the transport and before extract:complete is emitted.                   *)
(***************************************************************************)
C13_SyncDelivery ==
  \A e \in DOMAIN emissions :
    LET em == emissions[e]
        completed == /\ InvokedBy(tasks, e)
                          = { em.handlers[i] : i \in DOMAIN em.handlers }
                     /\ \A t \in TasksOf(Bus(em.call), e) : tasks[t].st = "ok"
    IN ~em.options.async =>
         /\ em.st = "returned" => completed
         /\ ( /\ em.event.type = "extract:start"
              /\ \/ AttemptsOf(em.call) > 0
                 \/ Count(emitted[em.call], "extract:complete") > 0 )
            => completed

\* extract has returned, and a handler of extract:start that was awaited
\* had returned a promise that was fulfilled later
C13_Witness ==
  \E t \in DOMAIN tasks :
    /\ tasks[t].handler = "hResolve"
    /\ tasks[t].st = "ok"
    /\ emissions[tasks[t].emission].event.type = "extract:start"
    /\ ~emissions[tasks[t].emission].options.async
    /\ pc[emissions[tasks[t].emission].call] = "done"
    /\ Count(emitted[emissions[tasks[t].emission].call], "extract:complete") = 1

\* the handler of run t of handleEvent has failed
HandlerFailed(t) == Fails(tasks[t].handler) /\ tasks[t].st # "running"

\* the emissions of handler:error made by run t of handleEvent for the
\* failure of its handler
Reported(t) ==
  { n \in DOMAIN emissions :
      /\ emissions[n].parent = t
      /\ emissions[n].event.type = "handler:error"
      /\ emissions[n].event.error = HandlerError(tasks[t].handler) }

(***************************************************************************)
(* C14: when the delivery options of a type have catchErrors = true and    *)
(* async = false and a handler of the type fails, handler:error is emitted *)
(* with that failure and the emission does not throw to the operation      *)
(* awaiting it: the operation goes on as if the handler had succeeded.     *)
(***************************************************************************)
C14_Isolated ==
  \A t \in DOMAIN tasks :
    LET em == emissions[tasks[t].emission] IN
    (HandlerFailed(t) /\ em.options.catchErrors /\ ~em.options.async
       /\ em.parent = 0)
      => /\ Reported(t) # {}
         /\ em.st # "threw"

\* C14, with what happens when the emission of handler:error fails itself:
\* handler:error is emitted with the failure of the handler; handleEvent
\* fails only with what that emission of handler:error threw, and ends
\* normally if it returned; the emission throws to the operation awaiting
\* it only what such an emission of handler:error threw.
C14_IsolatedUnlessReportFails ==
  \A t \in DOMAIN tasks :
    LET em == emissions[tasks[t].emission] IN
    (HandlerFailed(t) /\ em.options.catchErrors /\ ~em.options.async
       /\ em.parent = 0)
      => /\ Reported(t) # {}
         /\ tasks[t].st = "failed" =>
              \E n \in Reported(t) : /\ emissions[n].st = "threw"
                                     /\ emissions[n].thrown = tasks[t].error
         /\ (\A n \in Reported(t) : emissions[n].st = "returned") =>
              tasks[t].st = "ok"
         /\ em.st = "threw" =>
              \E u \in TasksOf(Bus(em.call), tasks[t].emission),
                 n \in DOMAIN emissions :
                /\ emissions[n].parent = u
                /\ emissions[n].st = "threw"
                /\ emissions[n].thrown = em.thrown

\* extract has returned its data although a handler of extract:start,
\* delivered with catchErrors = true and awaited, had failed
C14_Witness ==
  \E t \in DOMAIN tasks :
    /\ HandlerFailed(t)
    /\ emissions[tasks[t].emission].event.type = "extract:start"
    /\ emissions[tasks[t].emission].options.catchErrors
    /\ ~emissions[tasks[t].emission].options.async
    /\ tasks[t].st = "ok"
    /\ pc[emissions[tasks[t].emission].call] = "done"
    /\ \E i \in DOMAIN emitted[emissions[tasks[t].emission].call] :
         LET ev == emitted[emissions[tasks[t].emission].call][i] IN
         ev.type = "handler:error" /\ ev.error = HandlerError(tasks[t].handler)

(***************************************************************************)
(* C15: when the delivery options of a type have catchErrors = false and   *)
(* async = false and a handler of the type fails, no handler:error is      *)
(* emitted for it, the emission throws, and the extract call that made the *)
(* emission fails.                                                         *)
(***************************************************************************)
C15_Propagates ==
  \A t \in DOMAIN tasks :
    LET em == emissions[tasks[t].emission] IN
    (HandlerFailed(t) /\ ~em.options.catchErrors /\ ~em.options.async
       /\ em.parent = 0)
      => /\ Reported(t) = {}
         /\ em.st = "threw"
         /\ pc[em.call] # "done"

(***************************************************************************)
(* C16: when the delivery options of a type have async = true, an emission *)
(* invokes every handler subscribed for the type and returns without       *)
(* waiting for any of them, and it never throws to the operation that      *)
(* made it, whether catchErrors is true or false.                          *)
(***************************************************************************)
C16_FireAndForget ==
  \A e \in DOMAIN emissions :
    emissions[e].options.async =>
      /\ InvokedBy(tasks, e)
           = { emissions[e].handlers[i] : i \in DOMAIN emissions[e].handlers }
      /\ emissions[e].st = "returned"
      /\ emissions[e].thrown = NoError

\* extract has returned although a handler of extract:start, delivered with
\* async = true, is still running and another one has failed
C16_Witness ==
  \E t, u \in DOMAIN tasks :
    /\ tasks[t].emission = tasks[u].emission
    /\ emissions[tasks[t].emission].options.async
    /\ emissions[tasks[t].emission].event.type = "extract:start"
    /\ tasks[t].handler = "hResolve" /\ tasks[t].st = "running"
    /\ HandlerFailed(u)
    /\ pc[emissions[tasks[t].emission].call] = "done"

(***************************************************************************)
(* C21: a response whose status is not 429, a success or an error, ends    *)
(* the retry loop at once: extract goes on with it, reads its body and the *)
(* call ends, no further attempt is made, no backoff timer is set, and     *)
(* neither rateLimit nor request:retry is emitted for the attempt (the log *)
(* holds one rateLimit per earlier 429 and one request:retry per earlier   *)
(* attempt).                                                               *)
(***************************************************************************)
C21_Non429EndsLoop ==
  \A p \in Procs :
    (/\ answers[p] # <<>>
     /\ Responded(LastAnswer(p))
     /\ LastAnswer(p).status # 429) =>
      LET n == Len(answers[p]) IN
      /\ ~Running(p)
      /\ BodyRead(p) <=> Terminated(p)
      /\ AttemptsOf(p) = n
      /\ wakeAt[p] = NoTimer
      /\ timeoutId[p] = NoTimer
      /\ Count(emitted[p], "rateLimit")
           = Cardinality({ i \in 1..(n - 1) : Is429(answers[p][i]) })
      /\ Count(emitted[p], "request:retry") = n - 1
      /\ BodyRead(p) =>
           /\ FromEnd(p, 0).type \in {"extract:complete", "extract:error"}
           /\ FromEnd(p, 1).type \notin {"rateLimit", "request:retry"}
                \/ FromEnd(p, 1).timestamp < FromEnd(p, 0).timestamp
      /\ ~BodyRead(p) =>
           FromEnd(p, 0).type \in {"extract:start", "request:retry"}

\* a server error answered to the first attempt of a call that could still
\* retry has ended the call
C21_Witness ==
  \E p \in Procs :
    /\ Len(answers[p]) = 1
    /\ LastAnswer(p).kind = "response"
    /\ LastAnswer(p).status = 500
    /\ retryOptions.maxRetries > 0
    /\ pc[p] = "failed"
    /\ AttemptsOf(p) = 1
    /\ Count(emitted[p], "request:retry") = 0

(***************************************************************************)
(* C22: the retry count of a call is 0 when the call enters the retry      *)
(* loop, changes only by the call's own retry and then by exactly 1, never *)
(* decreases and never exceeds maxRetries; an attempt handed to the        *)
(* transport carries as its retry count the number of attempts the call    *)
(* made before; a step of one call leaves the retry count of the other     *)
(* call unchanged, whether that call is under way or has ended.            *)
(***************************************************************************)
C22_RetryCount ==
  [][\A p \in Procs :
       /\ retryCount'[p] \in {retryCount[p], retryCount[p] + 1}
       /\ retryCount'[p] <= retryOptions.maxRetries
       /\ retryCount'[p] # retryCount[p] =>
            /\ pc[p] = "backoff"
            /\ \A q \in Procs \ {p} : retryCount'[q] = retryCount[q]
       /\ (pc[p] = "backoff" /\ pc'[p] # "backoff") =>
            retryCount'[p] = retryCount[p] + 1
       /\ (pc[p] = "validate" /\ pc'[p] \in {"rateLimit", "fetching"}) =>
            retryCount'[p] = 0
       /\ (pc[p] # "fetching" /\ pc'[p] = "fetching") =>
            /\ released'[Len(released')].call = p
            /\ released'[Len(released')].retryCount = AttemptsOf(p)
            /\ released'[Len(released')].retryCount = retryCount'[p]]_vars

\* call 1 is in its first retry while call 2, started on the same client,
\* is in its first attempt
C22_Witness ==
  /\ pc[1] = "fetching" /\ retryCount[1] = 1
  /\ pc[2] = "fetching" /\ retryCount[2] = 0
  /\ AttemptsOf(1) = 2 /\ AttemptsOf(2) = 1

(***************************************************************************)
(* C23: a call that waits before a retry, after a 429 or after a retryable *)
(* failure, sleeps on a timer due initialDelay * backoffFactor^n after the *)
(* request:retry event of the attempt with retry count n; the attempt with *)
(* retry count n + 1 is handed to the transport no earlier than that.      *)
(***************************************************************************)
C23_Backoff ==
  \A p \in Procs :
    LET retries == SelectSeq(emitted[p], LAMBDA ev : ev.type = "request:retry")
        wait(n) == retryOptions.initialDelay * retryOptions.backoffFactor ^ n
    IN /\ \A n \in 1..Len(retries) : retries[n].data.retryCount = n - 1
       /\ pc[p] = "backoff" =>
            /\ Len(retries) = retryCount[p] + 1
            /\ wakeAt[p] = retries[Len(retries)].timestamp + wait(retryCount[p])
       /\ \A i \in DOMAIN released :
            (released[i].call = p /\ released[i].retryCount > 0) =>
              LET n == released[i].retryCount - 1 IN
              /\ n + 1 <= Len(retries)
              /\ released[i].time >= retries[n + 1].timestamp + wait(n)

\* a 429, a connection failure and a 429 again were all retried by a client
\* with initialDelay 50 and backoffFactor 2: the waits were 50, 100 and 200,
\* and the fourth attempt is handed to the transport exactly when the third
\* wait has elapsed
C23_Witness ==
  LET retries == SelectSeq(emitted[1], LAMBDA ev : ev.type = "request:retry")
  IN /\ retryOptions.initialDelay = 50
     /\ retryOptions.backoffFactor = 2
     /\ Len(answers[1]) = 3
     /\ Is429(answers[1][1])
     /\ answers[1][2].kind = "reject"
     /\ Is429(answers[1][3])
     /\ AttemptsOf(1) = 4
     /\ Len(retries) = 3
     /\ released[2].time >= retries[1].timestamp + 50
     /\ released[3].time = retries[2].timestamp + 100
     /\ released[4].retryCount = 3
     /\ released[4].time = retries[3].timestamp + 200

(***************************************************************************)
(* C24: the only timeout timer pending for a call is the one of its        *)
(* attempt in flight, due a timeout after the attempt was handed to the    *)
(* transport; once the attempt has finished, by a response, a transport    *)
(* error, the timeout or the caller's cancellation, no timeout timer of    *)
(* the call is pending, however many attempts the call has made.           *)
(***************************************************************************)
C24_TimerReleased ==
  \A p \in Procs :
    LET mine == SelectSeq(released, LAMBDA r : r.call = p) IN
    /\ pc[p] # "fetching" => timeoutId[p] = NoTimer
    /\ Len(answers[p]) = Len(mine) => timeoutId[p] = NoTimer
    /\ pc[p] = "fetching" =>
         /\ Len(mine) = Len(answers[p]) + 1
         /\ timeoutId[p] = mine[Len(mine)].time + timeout

\* three attempts have finished, by a transport error, a response and the
\* timeout, and no timer is left
C24_Witness ==
  /\ Len(answers[1]) = 3
  /\ answers[1][1].kind = "reject" /\ answers[1][1] \notin {TimedOut, Cancelled}
  /\ answers[1][2].kind = "response"
  /\ answers[1][3] = TimedOut
  /\ AttemptsOf(1) = 3
  /\ Terminated(1)
  /\ timeoutId[1] = NoTimer

(***************************************************************************)
(* C25: in an emission delivered with async = false the handlers run one   *)
(* after the other in the order of their subscription: when a handler is   *)
(* started, no handler subscribed before it for the type is still running. *)
(* Every run of handleEvent of an emission starts in the step of emit that *)
(* calls the handlers, so a later run beside an earlier one whose handler  *)
(* has not settled is a handler started before an earlier one completed.   *)
(***************************************************************************)
C25_Sequential ==
  \A t, u \in DOMAIN tasks :
    (/\ tasks[t].emission = tasks[u].emission
     /\ t < u
     /\ ~emissions[tasks[t].emission].options.async)
      => tasks[t].st # "running"

(***************************************************************************)
(* C26: the envelope emit builds for a request:retry event has, in its     *)
(* retryCount field, the retry count of the attempt that is retried: 0 in  *)
(* the first request:retry event of a call, 1 in the second, and so on.    *)
(***************************************************************************)
C26_EnvelopeRetryCount ==
  \A p \in Procs : \A i \in DOMAIN emitted[p] :
    emitted[p][i].type = "request:retry" =>
      /\ emitted[p][i].retryCount # Undefined
      /\ emitted[p][i].retryCount
           = Cardinality({ j \in 1..(i - 1) :
                             emitted[p][j].type = "request:retry" })

(***************************************************************************)
(* C27: every emission terminates provided the handlers do: whatever the   *)
(* handlers and the delivery options, a failing handler of handler:error   *)
(* with catchErrors = true included, there is again and again a state in   *)
(* which no emission is open.  The emissions of a behaviour are finitely   *)
(* many, so this says that each of them returns or throws in the end.      *)
(***************************************************************************)
C27_EmissionTerminates ==
  []<>(\A e \in DOMAIN emissions : emissions[e].st # "open")

(***************************************************************************)
(* C28: whatever the handlers and the delivery options, a call emits at    *)
(* most one of extract:complete and extract:error, and a call that has     *)
(* emitted extract:complete and has ended has returned the data            *)
(* collection of the response.                                             *)
(***************************************************************************)
C28_CompleteOrError ==
  \A p \in Procs :
    /\ Count(emitted[p], "extract:complete")
         + Count(emitted[p], "extract:error") <= 1
    /\ (Count(emitted[p], "extract:complete") = 1 /\ Terminated(p)) =>
         /\ pc[p] = "done"
         /\ result[p].returned
         /\ result[p].data = LastAnswer(p).body.data

(***************************************************************************)
(* C29: the retries after a 429 and the retries after a retryable failure  *)
(* count against one budget: a call makes at most maxRetries + 1 attempts, *)
(* whatever the answers, and, the transport answering every attempt and    *)
(* every handler settling, a call that was made ends: extract returns or   *)
(* throws.                                                                 *)
(***************************************************************************)
C29_OneBudget ==
  /\ [](AttemptsOf(1) <= retryOptions.maxRetries + 1)
  /\ (pc[1] # "idle") ~> Terminated(1)

(***************************************************************************)
(* C30: the delivery options are kept per event type.  A call              *)
(* on(type, handler, options) sets the options of the type to the async    *)
(* and catchErrors of its argument, false and true for a field left out,   *)
(* leaves the options of the other types and the handlers subscribed       *)
(* before as they are, and nothing else changes the options.  An emission  *)
(* is delivered with the options its type has then, to every handler of    *)
(* the type: with async = true it returns at once, with async = false it   *)
(* does not return while a handler runs; a failure of any of its handlers  *)
(* is reported with handler:error if catchErrors is true and not           *)
(* otherwise.                                                              *)
(***************************************************************************)
C30_OptionsPerType ==
  [][/\ \A t \in BusTypes, h \in HandlerIds, o \in RawOptions :
          On(t, h, o) =>
            /\ eventOptions'[t]
                 = [async |-> "async" \in DOMAIN o /\ o.async,
                    catchErrors |-> "catchErrors" \in DOMAIN o => o.catchErrors]
            /\ \A u \in DOMAIN eventOptions \ {t} :
                 eventOptions'[u] = eventOptions[u]
            /\ \A i \in DOMAIN HandlersOf(eventHandlers, t) :
                 eventHandlers'[t][i] = eventHandlers[t][i]
     /\ eventOptions' # eventOptions => busCalls'.on = busCalls.on + 1
     /\ \A e \in DOMAIN emissions' \ DOMAIN emissions :
          LET em == emissions'[e] IN
          /\ em.options = OptionsOf(eventOptions, em.event.type)
          /\ em.handlers = HandlersOf(eventHandlers, em.event.type)
          /\ InvokedBy(tasks', e) = { em.handlers[i] : i \in DOMAIN em.handlers }
          /\ em.options.async => em.st = "returned"
     /\ \A t \in DOMAIN tasks' :
          LET em == emissions'[tasks'[t].emission] IN
          /\ (~em.options.async /\ tasks'[t].st = "running") =>
               em.st # "returned"
          /\ (Fails(tasks'[t].handler) /\ tasks'[t].st # "running") =>
               IF em.options.catchErrors
               THEN \/ \E n \in DOMAIN emissions' :
                         /\ emissions'[n].parent = t
                         /\ emissions'[n].event.type = "handler:error"
                    \/ Depth([emissions |-> emissions', tasks |-> tasks',
                              log |-> <<>>], tasks'[t].emission) >= MaxNest
               ELSE /\ \A n \in DOMAIN emissions' : emissions'[n].parent # t
                    /\ tasks'[t].st = "failed"]_vars

\* a handler that throws was subscribed for extract:complete before the
\* call, with the default options; during the call a second handler was
\* subscribed for the type with { catchErrors: false }; the emission of
\* extract:complete has invoked both with catchErrors = false: the failure
\* of the handler subscribed first was not reported and the emission threw
C30_Witness ==
  /\ busCalls.on = 2
  /\ busCalls.onDuring = 1
  /\ HandlersOf(eventHandlers, "extract:complete") = <<"hThrow", "hReturn">>
  /\ \E t, u \in DOMAIN tasks :
       /\ t < u
       /\ tasks[t].emission = tasks[u].emission
       /\ tasks[t].handler = "hThrow" /\ tasks[u].handler = "hReturn"
       /\ emissions[tasks[t].emission].event.type = "extract:complete"
       /\ emissions[tasks[t].emission].options
            = [async |-> FALSE, catchErrors |-> FALSE]
       /\ emissions[tasks[t].emission].st = "threw"
       /\ HandlerFailed(t)
       /\ Reported(t) = {}
       /\ tasks[u].st = "ok"

====
